---- MODULE Spec2Model ----
(***************************************************************************)
(* A model of the Weibo hot-search analytics pipeline: the normalizers of  *)
(* segment.py and mapper.py, the frequency mapper (mapper.py), the three   *)
(* streaming reducers (reducer.py, cooccurrence_reducer.py,                *)
(* time_dist_reducer.py), the inclusion dedup and the semantic merge.      *)
(*                                                                         *)
(* A word (a Python str) is a sequence of one-character strings, so that   *)
(* len(), ``in'' (substring), lower() and upper() are computed, not        *)
(* assumed.                                                                *)
(***************************************************************************)
EXTENDS Integers, Sequences, FiniteSets, TLC

VARIABLES
    \* normalizers (segment.normalize_word, segment/mapper.normalize_semantic)
    norm_pc, norm_word, norm_once, norm_twice,
    \* frequency mapper (mapper.py main), one process per mapper instance:
    \* news_seg is the segmented file, stdin[m] the lines instance m has yet to
    \* read, seen[m], rank[m], weight[m] its locals (bound[m]: rank and weight
    \* are assigned), stdout[m] the records it has written
    news_seg, stdin, seen, bound, rank, weight, stdout,
    \* deduplicate_by_inclusion: its argument, sorted_words yet to be walked,
    \* result, and where the call stands
    dd_pc, words_with_counts, sorted_words, result,
    \* merge_semantic_duplicates: its argument and what it returned
    mg_pc, mg_words, merged,
    \* streaming reducers (reducer.py, cooccurrence_reducer.py,
    \* time_dist_reducer.py): job is the reducer that runs, red_input the whole
    \* input, red_stdin the lines yet to be read, current_key / current_count the
    \* accumulator (current_word / current_sum in reducer.py, current_pair in
    \* cooccurrence_reducer.py; has_current: it is not None), aggregated the
    \* list reducer.py collects, red_stdout the records written
    job, red_pc, red_input, red_stdin, has_current, current_key, current_count,
    aggregated, red_stdout,
    \* segment.tokenize on one title: tok_tagged is what the external tagger
    \* returned for the cleaned title, tok_pseg whether jieba.posseg was
    \* imported, tok_stop_set the loaded stopwords; tok_tokens, tok_pos_list,
    \* tok_phrases are its locals tokens, pos_list, phrases, tok_final what it
    \* returned
    tok_pc, tok_tagged, tok_pseg, tok_stop_set, tok_tokens, tok_pos_list, tok_phrases,
    tok_final,
    \* segment.main: seg_lines the lines of news_raw.txt yet to be processed,
    \* seg_out_lines its local out_lines, seg_OUT the content of news_seg.txt,
    \* seg_status how the process stands or ended
    seg_pc, seg_raw, seg_lines, seg_out_lines, seg_OUT, seg_status,
    \* cooccurrence_mapper.main: the input, the lines yet to be read, the
    \* records written
    co_input, co_stdin, co_stdout,
    \* time_dist_mapper.main: the same, and the UTC offset (seconds) of the
    \* machine's time zone
    tm_input, tm_stdin, tm_stdout, tm_utcoffset,
    \* web/app.py parse_time_distribution: the lines of the file (td_exists: the
    \* file exists), the lines yet to be read, the local time_dist, and what
    \* the call returned
    td_pc, td_exists, td_file, td_lines, time_dist, td_returned,
    \* web/app.py parse_top20 and the statement of index() that calls it:
    \* the lines of top20.txt (t20_exists: the file exists), the lines yet to
    \* be read, the locals data and total_heat, what the call returned, and
    \* how the caller's unpacking of it ended
    t20_pc, t20_exists, t20_file, t20_lines, t20_data, t20_total_heat, t20_returned,
    t20_caller,
    \* web/app.py api_refresh: where the handler stands, its locals step and
    \* logs, the content of last_refresh.log, the response returned, and the
    \* files the steps hand on: news_raw.txt, news_seg.txt, /input/news_seg.txt
    \* in HDFS, which of top20.txt and cooccurrence.txt exist locally,
    \* time_dist.txt, and the UTC offset of the container's time zone
    rf_pc, rf_step, rf_logs, rf_LOG_FILE, rf_response, rf_news_raw, rf_news_seg,
    rf_input, rf_local, rf_time_dist_txt, rf_utcoffset

normVars == <<norm_pc, norm_word, norm_once, norm_twice>>
mapVars == <<news_seg, stdin, seen, bound, rank, weight, stdout>>
ddVars == <<dd_pc, words_with_counts, sorted_words, result>>
mgVars == <<mg_pc, mg_words, merged>>
redVars == <<job, red_pc, red_input, red_stdin, has_current, current_key, current_count,
             aggregated, red_stdout>>
tokVars == <<tok_pc, tok_tagged, tok_pseg, tok_stop_set, tok_tokens, tok_pos_list,
             tok_phrases, tok_final>>
segVars == <<seg_pc, seg_raw, seg_lines, seg_out_lines, seg_OUT, seg_status>>
coVars == <<co_input, co_stdin, co_stdout>>
tmVars == <<tm_input, tm_stdin, tm_stdout, tm_utcoffset>>
tdVars == <<td_pc, td_exists, td_file, td_lines, time_dist, td_returned>>
topVars == <<t20_pc, t20_exists, t20_file, t20_lines, t20_data, t20_total_heat,
             t20_returned, t20_caller>>
rfVars == <<rf_pc, rf_step, rf_logs, rf_LOG_FILE, rf_response, rf_news_raw, rf_news_seg,
            rf_input, rf_local, rf_time_dist_txt, rf_utcoffset>>
vars == <<normVars, mapVars, ddVars, mgVars, redVars, tokVars, segVars, coVars, tmVars,
          tdVars, topVars, rfVars>>

\* What each program leaves alone: the variables of the other programs.
exceptNorm == <<mapVars, ddVars, mgVars, redVars, tokVars, segVars, coVars, tmVars,
                tdVars, topVars, rfVars>>
exceptMap == <<normVars, ddVars, mgVars, redVars, tokVars, segVars, coVars, tmVars,
               tdVars, topVars, rfVars>>
exceptDd == <<normVars, mapVars, mgVars, redVars, tokVars, segVars, coVars, tmVars,
              tdVars, topVars, rfVars>>
exceptMg == <<normVars, mapVars, ddVars, redVars, tokVars, segVars, coVars, tmVars,
              tdVars, topVars, rfVars>>
exceptRed == <<normVars, mapVars, ddVars, mgVars, tokVars, segVars, coVars, tmVars,
               tdVars, topVars, rfVars>>
exceptTok == <<normVars, mapVars, ddVars, mgVars, redVars, segVars, coVars, tmVars,
               tdVars, topVars, rfVars>>
exceptSeg == <<normVars, mapVars, ddVars, mgVars, redVars, tokVars, coVars, tmVars,
               tdVars, topVars, rfVars>>
exceptCo == <<normVars, mapVars, ddVars, mgVars, redVars, tokVars, segVars, tmVars,
              tdVars, topVars, rfVars>>
exceptTm == <<normVars, mapVars, ddVars, mgVars, redVars, tokVars, segVars, coVars,
              tdVars, topVars, rfVars>>
exceptTd == <<normVars, mapVars, ddVars, mgVars, redVars, tokVars, segVars, coVars,
              tmVars, topVars, rfVars>>
exceptTop == <<normVars, mapVars, ddVars, mgVars, redVars, tokVars, segVars, coVars,
               tmVars, tdVars, rfVars>>
exceptRf == <<normVars, mapVars, ddVars, mgVars, redVars, tokVars, segVars, coVars,
              tmVars, tdVars, topVars>>

(***************************************************************************)
(* Bounds of the model, and the idle values that the variables of a        *)
(* program keep in the specifications that do not run it.                  *)
(***************************************************************************)
MaxLines == 2
NumMappers == 2
Mappers == 1..NumMappers
MaxWords == 3
MaxRecords == 3

NoCanon == [word |-> <<>>, seg |-> <<>>, map |-> <<>>, pipe |-> <<>>]

IdleNorm ==
    /\ norm_pc = "idle" /\ norm_word = <<>> /\ norm_once = NoCanon /\ norm_twice = NoCanon
IdleMap ==
    /\ news_seg = <<>>
    /\ stdin = [m \in Mappers |-> <<>>]
    /\ seen = [m \in Mappers |-> {}]
    /\ bound = [m \in Mappers |-> FALSE]
    /\ rank = [m \in Mappers |-> 0]
    /\ weight = [m \in Mappers |-> 0]
    /\ stdout = [m \in Mappers |-> <<>>]
IdleDd ==
    /\ dd_pc = "idle" /\ words_with_counts = <<>> /\ sorted_words = <<>> /\ result = <<>>
IdleMg ==
    /\ mg_pc = "idle" /\ mg_words = <<>> /\ merged = <<>>
IdleRed ==
    /\ job = "none" /\ red_pc = "idle" /\ red_input = <<>> /\ red_stdin = <<>>
    /\ has_current = FALSE /\ current_key = <<>> /\ current_count = 0
    /\ aggregated = <<>> /\ red_stdout = <<>>
IdleTok ==
    /\ tok_pc = "idle" /\ tok_tagged = <<>> /\ tok_pseg = TRUE /\ tok_stop_set = {}
    /\ tok_tokens = <<>> /\ tok_pos_list = <<>> /\ tok_phrases = <<>> /\ tok_final = <<>>
IdleSeg ==
    /\ seg_pc = "idle" /\ seg_raw = <<>> /\ seg_lines = <<>> /\ seg_out_lines = <<>>
    /\ seg_OUT = <<>> /\ seg_status = "idle"
IdleCo ==
    /\ co_input = <<>> /\ co_stdin = <<>> /\ co_stdout = <<>>
IdleTm ==
    /\ tm_input = <<>> /\ tm_stdin = <<>> /\ tm_stdout = <<>> /\ tm_utcoffset = 0
IdleTd ==
    /\ td_pc = "idle" /\ td_exists = FALSE /\ td_file = <<>> /\ td_lines = <<>>
    /\ time_dist = <<>> /\ td_returned = <<>>

IdleTop ==
    /\ t20_pc = "idle" /\ t20_exists = FALSE /\ t20_file = <<>> /\ t20_lines = <<>>
    /\ t20_data = <<>> /\ t20_total_heat = 0 /\ t20_returned = <<>> /\ t20_caller = "idle"

IdleRf ==
    /\ rf_pc = "idle" /\ rf_step = 0 /\ rf_logs = <<>> /\ rf_LOG_FILE = <<>> /\ rf_response = <<>>
    /\ rf_news_raw = <<>> /\ rf_news_seg = <<>> /\ rf_input = <<>> /\ rf_local = <<>>
    /\ rf_time_dist_txt = <<>> /\ rf_utcoffset = 0

\* Every program but the one named is idle.
OthersIdle(program) ==
    /\ IF program = "norm" THEN TRUE ELSE IdleNorm
    /\ IF program = "map" THEN TRUE ELSE IdleMap
    /\ IF program = "dedup" THEN TRUE ELSE IdleDd
    /\ IF program = "merge" THEN TRUE ELSE IdleMg
    /\ IF program = "reduce" THEN TRUE ELSE IdleRed
    /\ IF program = "tokenize" THEN TRUE ELSE IdleTok
    /\ IF program = "segment" THEN TRUE ELSE IdleSeg
    /\ IF program = "cooccurrence" THEN TRUE ELSE IdleCo
    /\ IF program = "time_dist" THEN TRUE ELSE IdleTm
    /\ IF program = "parse_time" THEN TRUE ELSE IdleTd
    /\ IF program = "parse_top20" THEN TRUE ELSE IdleTop
    /\ IF program = "api_refresh" THEN TRUE ELSE IdleRf

(***************************************************************************)
(* Strings                                                                 *)
(***************************************************************************)
Range(s) == {s[i] : i \in DOMAIN s}
SeqsUpTo(S, n) == UNION {[1..k -> S] : k \in 0..n}

LowerLetters ==
    <<"a","b","c","d","e","f","g","h","i","j","k","l","m",
      "n","o","p","q","r","s","t","u","v","w","x","y","z">>
UpperLetters ==
    <<"A","B","C","D","E","F","G","H","I","J","K","L","M",
      "N","O","P","Q","R","S","T","U","V","W","X","Y","Z">>

IsLowerChar(c) == \E i \in DOMAIN LowerLetters : LowerLetters[i] = c
IsUpperChar(c) == \E i \in DOMAIN UpperLetters : UpperLetters[i] = c
IsAsciiLetter(c) == IsLowerChar(c) \/ IsUpperChar(c)
IsSpaceChar(c) == c \in {" ", "\t"}

\* str.lower() / str.upper(): only cased characters change.
LowerChar(c) ==
    IF IsUpperChar(c)
    THEN LowerLetters[CHOOSE i \in DOMAIN UpperLetters : UpperLetters[i] = c]
    ELSE c
UpperChar(c) ==
    IF IsLowerChar(c)
    THEN UpperLetters[CHOOSE i \in DOMAIN LowerLetters : LowerLetters[i] = c]
    ELSE c
lower(w) == [i \in 1..Len(w) |-> LowerChar(w[i])]
upper(w) == [i \in 1..Len(w) |-> UpperChar(w[i])]

\* str.strip(): leading and trailing whitespace removed.
RECURSIVE lstrip(_)
lstrip(w) == IF w # <<>> /\ IsSpaceChar(Head(w)) THEN lstrip(Tail(w)) ELSE w
RECURSIVE rstrip(_)
rstrip(w) ==
    IF w # <<>> /\ IsSpaceChar(w[Len(w)]) THEN rstrip(SubSeq(w, 1, Len(w) - 1)) ELSE w
strip(w) == rstrip(lstrip(w))

\* re.fullmatch(r"[A-Za-z]+", w)
IsAlphaWord(w) == w # <<>> /\ \A i \in DOMAIN w : IsAsciiLetter(w[i])

\* q.join(parts)
RECURSIVE join(_, _)
join(q, parts) ==
    IF parts = <<>> THEN <<>>
    ELSE IF Len(parts) = 1 THEN parts[1]
    ELSE parts[1] \o q \o join(q, Tail(parts))

\* str.split(): the maximal runs of non-whitespace characters, in order.
RECURSIVE split_ws(_, _)
split_ws(w, cur) ==
    IF w = <<>> THEN (IF cur = <<>> THEN <<>> ELSE <<cur>>)
    ELSE IF IsSpaceChar(Head(w))
         THEN (IF cur = <<>> THEN <<>> ELSE <<cur>>) \o split_ws(Tail(w), <<>>)
         ELSE split_ws(Tail(w), Append(cur, Head(w)))
split(w) == split_ws(w, <<>>)

\* ``sep in w'', sep one character
HasChar(w, sep) == \E i \in DOMAIN w : w[i] = sep
FirstIndex(w, sep) == CHOOSE i \in DOMAIN w : w[i] = sep /\ \A j \in 1..(i - 1) : w[j] # sep

\* w.split(sep, 1): one part when sep is absent, else the text before the
\* first sep and the text after it.
split1(w, sep) ==
    IF ~HasChar(w, sep) THEN <<w>>
    ELSE <<SubSeq(w, 1, FirstIndex(w, sep) - 1), SubSeq(w, FirstIndex(w, sep) + 1, Len(w))>>

AsciiDigits == <<"0","1","2","3","4","5","6","7","8","9">>
IsAsciiDigit(c) == \E i \in DOMAIN AsciiDigits : AsciiDigits[i] = c
DigitValue(c) == (CHOOSE i \in DOMAIN AsciiDigits : AsciiDigits[i] = c) - 1

\* str.isdigit(): non-empty and every character is a digit. Besides the decimal
\* digits, Unicode counts superscripts such as U+00B2 as digits.
IsDigitChar(c) == IsAsciiDigit(c) \/ c = "u00b2"
isdigit(w) == w # <<>> /\ \A i \in DOMAIN w : IsDigitChar(w[i])

RECURSIVE DecimalValue(_)
DecimalValue(w) ==
    IF w = <<>> THEN 0 ELSE 10 * DecimalValue(SubSeq(w, 1, Len(w) - 1)) + DigitValue(w[Len(w)])

\* int(w): surrounding whitespace and one sign are allowed, then one or more
\* decimal digits; anything else raises ValueError (ok = FALSE).
int(w0) ==
    LET w == strip(w0)
        signed == w # <<>> /\ Head(w) \in {"+", "-"}
        digits == IF signed THEN Tail(w) ELSE w
        good == digits # <<>> /\ \A i \in DOMAIN digits : IsAsciiDigit(digits[i])
    IN  IF ~good THEN [ok |-> FALSE, val |-> 0]
        ELSE [ok |-> TRUE,
              val |-> IF signed /\ Head(w) = "-" THEN 0 - DecimalValue(digits)
                      ELSE DecimalValue(digits)]

\* Python's ``a in b'' on strings: a occurs in b as a contiguous substring.
IsSubstring(a, b) ==
    \E k \in 0..(Len(b) - Len(a)) : \A i \in 1..Len(a) : b[k + i] = a[i]

(***************************************************************************)
(* The static tables                                                       *)
(***************************************************************************)
\* The dict literal bound to NORMALIZE_MAP in segment.py, as the set of its
\* <<key, value>> pairs. A CJK character is written as its code point, "u7206"
\* for U+7206.
VariantEntries ==
    { <<<<"u7206","u5149">>, <<"u66dd","u5149">>>>,  \* 爆光: 曝光
      <<<<"u5b98","u5ba3","u4e86">>, <<"u5b98","u5ba3">>>>,  \* 官宣了: 官宣
      <<<<"u5b98","u5ba3","u5566">>, <<"u5b98","u5ba3">>>>,  \* 官宣啦: 官宣
      <<<<"u9884","u544a">>, <<"u9884","u544a","u7247">>>>,  \* 预告: 预告片
      <<<<"u5fae","u535a">>, <<"u5fae","u535a">>>>,  \* 微博: 微博
      <<<<"u70ed","u641c">>, <<"u70ed","u641c">>>>,  \* 热搜: 热搜
      <<<<"u56de","u5e94">>, <<"u56de","u5e94">>>>,  \* 回应: 回应
      <<<<"u66dd","u5149">>, <<"u66dd","u5149">>>>,  \* 曝光: 曝光
      <<<<"u5b98","u65b9">>, <<"u5b98","u65b9">>>>,  \* 官方: 官方
      <<<<"u58f0","u660e">>, <<"u58f0","u660e">>>>,  \* 声明: 声明
      <<<<"u6700","u65b0">>, <<"u6700","u65b0">>>>,  \* 最新: 最新
      <<<<"u7ec8","u4e8e">>, <<"u7ec8","u4e8e">>>>,  \* 终于: 终于
      <<<<"u7adf","u7136">>, <<"u7adf","u7136">>>>,  \* 竟然: 竟然
      <<<<"u60ca","u5446">>, <<"u60ca","u5446">>>>,  \* 惊呆: 惊呆
      <<<<"u70b8","u4e86">>, <<"u70b8","u88c2">>>>,  \* 炸了: 炸裂
      <<<<"u5d29","u6e83">>, <<"u5d29","u6e83">>>>,  \* 崩溃: 崩溃
      <<<<"u65e0","u8bed">>, <<"u65e0","u8bed">>>>,  \* 无语: 无语
      <<<<"u54ed","u4e86">>, <<"u54ed","u6ce3">>>>,  \* 哭了: 哭泣
      <<<<"u7b11","u6b7b">>, <<"u7b11","u6b7b">>>>,  \* 笑死: 笑死
      <<<<"u592a","u597d","u54ed">>, <<"u592a","u597d","u54ed">>>>,  \* 太好哭: 太好哭
      <<<<"u7834","u9632">>, <<"u7834","u9632">>>>,  \* 破防: 破防
      <<<<"u4e0a","u5934">>, <<"u4e0a","u5934">>>>,  \* 上头: 上头
      <<<<"u7edd","u7edd","u5b50">>, <<"u7edd","u7edd","u5b50">>>>,  \* 绝绝子: 绝绝子
      <<<<"u65e0","u8bed","u5b50">>, <<"u65e0","u8bed","u5b50">>>>,  \* 无语子: 无语子
      <<<<"y","y","d","s">>, <<"u6c38","u8fdc","u7684","u795e">>>>,  \* yyds: 永远的神
      <<<<"z","f","b">>, <<"u652f","u4ed8","u5b9d">>>>,  \* zfb: 支付宝
      <<<<"x","s","w","l">>, <<"u7b11","u6b7b","u6211","u4e86">>>>,  \* xswl: 笑死我了
      <<<<"n","s","d","d">>, <<"u4f60","u8bf4","u5f97","u5bf9">>>>,  \* nsdd: 你说得对
      <<<<"n","b","c","s">>, <<"u6ca1","u4eba","u5728","u4e4e">>>>,  \* nbcs: 没人在乎
      <<<<"g","k","d">>, <<"u641e","u5feb","u70b9">>>>,  \* gkd: 搞快点
      <<<<"s","s","f","d">>, <<"u745f","u745f","u53d1","u6296">>>>,  \* ssfd: 瑟瑟发抖
      <<<<"p","l","g","g">>, <<"u6f02","u4eae","u54e5","u54e5">>>>,  \* plgg: 漂亮哥哥
      <<<<"w","p","p">>, <<"u7f51","u53cb">>>>,  \* wpp: 网友
      <<<<"b","p">>, <<"u95ed","u9ea6">>>>,  \* bp: 闭麦
      <<<<"b","l","x">>, <<"u73bb","u7483","u5fc3">>>>,  \* blx: 玻璃心
      <<<<"c","j","b">>, <<"u6210","u7ee9","u8868">>>>,  \* cjb: 成绩表
      <<<<"d","b","q">>, <<"u5bf9","u4e0d","u8d77">>>>,  \* dbq: 对不起
      <<<<"d","o","g","e">>, <<"d","o","g","e">>>>,  \* doge: doge
      <<<<"e","m","m","m">>, <<"u55ef">>>>,  \* emmm: 嗯
      <<<<"s","r","d","s">>, <<"u867d","u7136","u4f46","u662f">>>>,  \* srds: 虽然但是
      <<<<"x","j","j">>, <<"u5c0f","u59d0","u59d0">>>>,  \* xjj: 小姐姐
      <<<<"y","y","s","y">>, <<"u6709","u4e00","u8bf4","u4e00">>>>,  \* yysy: 有一说一
      <<<<"u7269","u6599">>, <<"u7269","u6599">>>>,  \* 物料: 物料
      <<<<"u6740","u6211">>, <<"u6740","u6211">>>>,  \* 杀我: 杀我
      <<<<"u4e0a","u70ed","u641c">>, <<"u4e0a","u70ed","u641c">>>> }  \* 上热搜: 上热搜

\* The table with one entry pointing at another entry's key instead of at the
\* canonical form.
NORMALIZE_MAP_Chained ==
    (VariantEntries \ {<<<<"u5b98","u5ba3","u4e86">>, <<"u5b98","u5ba3">>>>})
    \cup {<<<<"u5b98","u5ba3","u4e86">>, <<"u5b98","u5ba3","u5566">>>>}  \* 官宣了: 官宣啦

\* segment.py NORMALIZE_MAP, the variant table the normalizer reads.
NORMALIZE_MAP == VariantEntries

\* mapper.py SEMANTIC_GROUPS, in dict order: <<standard, variants>>.
MAPPER_SEMANTIC_GROUPS ==
    \* 火灾事故: 火灾 事故 起火 失火 着火
    << <<<<"u706b","u707e","u4e8b","u6545">>, <<<<"u706b","u707e">>, <<"u4e8b","u6545">>, <<"u8d77","u706b">>, <<"u5931","u706b">>, <<"u7740","u706b">>>>>>,
    \* 调查报告: 报告 调查 通报 结果 结论
       <<<<"u8c03","u67e5","u62a5","u544a">>, <<<<"u62a5","u544a">>, <<"u8c03","u67e5">>, <<"u901a","u62a5">>, <<"u7ed3","u679c">>, <<"u7ed3","u8bba">>>>>>,
    \* 展品: 文物 展品 藏品 古董 艺术品
       <<<<"u5c55","u54c1">>, <<<<"u6587","u7269">>, <<"u5c55","u54c1">>, <<"u85cf","u54c1">>, <<"u53e4","u8463">>, <<"u827a","u672f","u54c1">>>>>>,
    \* 真假: 真伪 真假 伪造 赝品
       <<<<"u771f","u5047">>, <<<<"u771f","u4f2a">>, <<"u771f","u5047">>, <<"u4f2a","u9020">>, <<"u8d5d","u54c1">>>>>>,
    \* 怀孕: 怀孕 妊娠 有孕 有喜 准妈妈
       <<<<"u6000","u5b55">>, <<<<"u6000","u5b55">>, <<"u598a","u5a20">>, <<"u6709","u5b55">>, <<"u6709","u559c">>, <<"u51c6","u5988","u5988">>>>>>,
    \* 发声: 发声 回应 表态 说话
       <<<<"u53d1","u58f0">>, <<<<"u53d1","u58f0">>, <<"u56de","u5e94">>, <<"u8868","u6001">>, <<"u8bf4","u8bdd">>>>>>,
    \* 质疑: 质疑 怀疑 争议
       <<<<"u8d28","u7591">>, <<<<"u8d28","u7591">>, <<"u6000","u7591">>, <<"u4e89","u8bae">>>>>>,
    \* 驾车: 开车 驾车 驾驶
       <<<<"u9a7e","u8f66">>, <<<<"u5f00","u8f66">>, <<"u9a7e","u8f66">>, <<"u9a7e","u9a76">>>>>>,
    \* 身亡: 死亡 身亡 去世 逝世 丧命
       <<<<"u8eab","u4ea1">>, <<<<"u6b7b","u4ea1">>, <<"u8eab","u4ea1">>, <<"u53bb","u4e16">>, <<"u901d","u4e16">>, <<"u4e27","u547d">>>>>>,
    \* 手术: 手术 开刀 治疗 救治
       <<<<"u624b","u672f">>, <<<<"u624b","u672f">>, <<"u5f00","u5200">>, <<"u6cbb","u7597">>, <<"u6551","u6cbb">>>>>>,
    \* 利用漏洞: 漏洞 利用 系统漏洞 黑客
       <<<<"u5229","u7528","u6f0f","u6d1e">>, <<<<"u6f0f","u6d1e">>, <<"u5229","u7528">>, <<"u7cfb","u7edf","u6f0f","u6d1e">>, <<"u9ed1","u5ba2">>>>>>,
    \* 智力障碍: 智力 障碍 智障 残疾
       <<<<"u667a","u529b","u969c","u788d">>, <<<<"u667a","u529b">>, <<"u969c","u788d">>, <<"u667a","u969c">>, <<"u6b8b","u75be">>>>>>,
    \* 博物馆: 博物馆 展馆 美术馆 博物院
       <<<<"u535a","u7269","u9986">>, <<<<"u535a","u7269","u9986">>, <<"u5c55","u9986">>, <<"u7f8e","u672f","u9986">>, <<"u535a","u7269","u9662">>>>>>,
    \* 格莱美: 格莱美 grammy 颁奖礼
       <<<<"u683c","u83b1","u7f8e">>, <<<<"u683c","u83b1","u7f8e">>, <<"g","r","a","m","m","y">>, <<"u9881","u5956","u793c">>>>>>,
    \* 旗舰: 旗舰 高端 顶级 豪华
       <<<<"u65d7","u8230">>, <<<<"u65d7","u8230">>, <<"u9ad8","u7aef">>, <<"u9876","u7ea7">>, <<"u8c6a","u534e">>>>>>,
    \* 镜头: 镜头 画面 影像
       <<<<"u955c","u5934">>, <<<<"u955c","u5934">>, <<"u753b","u9762">>, <<"u5f71","u50cf">>>>>>,
    \* 舞台: 舞台 表演 演出现场
       <<<<"u821e","u53f0">>, <<<<"u821e","u53f0">>, <<"u8868","u6f14">>, <<"u6f14","u51fa","u73b0","u573a">>>>>> >>

\* segment.py SEMANTIC_GROUPS, in dict order: <<standard, variants>>. The literal names the
\* key 发声 twice; a Python dict keeps the first key's position and the last value.
SEGMENT_SEMANTIC_GROUPS ==
    \* 火灾事故: 火灾 事故 起火 失火 着火
    << <<<<"u706b","u707e","u4e8b","u6545">>, <<<<"u706b","u707e">>, <<"u4e8b","u6545">>, <<"u8d77","u706b">>, <<"u5931","u706b">>, <<"u7740","u706b">>>>>>,
    \* 调查报告: 报告 调查 通报 结果 结论
       <<<<"u8c03","u67e5","u62a5","u544a">>, <<<<"u62a5","u544a">>, <<"u8c03","u67e5">>, <<"u901a","u62a5">>, <<"u7ed3","u679c">>, <<"u7ed3","u8bba">>>>>>,
    \* 展品: 文物 展品 藏品 古董 艺术品
       <<<<"u5c55","u54c1">>, <<<<"u6587","u7269">>, <<"u5c55","u54c1">>, <<"u85cf","u54c1">>, <<"u53e4","u8463">>, <<"u827a","u672f","u54c1">>>>>>,
    \* 真假: 真伪 真假 真假 伪造 赝品
       <<<<"u771f","u5047">>, <<<<"u771f","u4f2a">>, <<"u771f","u5047">>, <<"u771f","u5047">>, <<"u4f2a","u9020">>, <<"u8d5d","u54c1">>>>>>,
    \* 怀孕: 怀孕 妊娠 有孕 有喜 准妈妈
       <<<<"u6000","u5b55">>, <<<<"u6000","u5b55">>, <<"u598a","u5a20">>, <<"u6709","u5b55">>, <<"u6709","u559c">>, <<"u51c6","u5988","u5988">>>>>>,
    \* 发声: 发声 表态 发言 回应
       <<<<"u53d1","u58f0">>, <<<<"u53d1","u58f0">>, <<"u8868","u6001">>, <<"u53d1","u8a00">>, <<"u56de","u5e94">>>>>>,
    \* 质疑: 质疑 质疑 怀疑 争议 争议
       <<<<"u8d28","u7591">>, <<<<"u8d28","u7591">>, <<"u8d28","u7591">>, <<"u6000","u7591">>, <<"u4e89","u8bae">>, <<"u4e89","u8bae">>>>>>,
    \* 驾车: 开车 驾车 驾驶 开车 开远
       <<<<"u9a7e","u8f66">>, <<<<"u5f00","u8f66">>, <<"u9a7e","u8f66">>, <<"u9a7e","u9a76">>, <<"u5f00","u8f66">>, <<"u5f00","u8fdc">>>>>>,
    \* 身亡: 死亡 身亡 去世 逝世 丧命
       <<<<"u8eab","u4ea1">>, <<<<"u6b7b","u4ea1">>, <<"u8eab","u4ea1">>, <<"u53bb","u4e16">>, <<"u901d","u4e16">>, <<"u4e27","u547d">>>>>>,
    \* 手术: 手术 手术 开刀 治疗 救治
       <<<<"u624b","u672f">>, <<<<"u624b","u672f">>, <<"u624b","u672f">>, <<"u5f00","u5200">>, <<"u6cbb","u7597">>, <<"u6551","u6cbb">>>>>>,
    \* 利用漏洞: 漏洞 利用 系统漏洞 黑客
       <<<<"u5229","u7528","u6f0f","u6d1e">>, <<<<"u6f0f","u6d1e">>, <<"u5229","u7528">>, <<"u7cfb","u7edf","u6f0f","u6d1e">>, <<"u9ed1","u5ba2">>>>>>,
    \* 智力障碍: 智力 障碍 智障 残疾
       <<<<"u667a","u529b","u969c","u788d">>, <<<<"u667a","u529b">>, <<"u969c","u788d">>, <<"u667a","u969c">>, <<"u6b8b","u75be">>>>>>,
    \* 博物馆: 博物馆 展馆 美术馆 博物院
       <<<<"u535a","u7269","u9986">>, <<<<"u535a","u7269","u9986">>, <<"u5c55","u9986">>, <<"u7f8e","u672f","u9986">>, <<"u535a","u7269","u9662">>>>>>,
    \* 格莱美: 格莱美 grammy 颁奖礼
       <<<<"u683c","u83b1","u7f8e">>, <<<<"u683c","u83b1","u7f8e">>, <<"g","r","a","m","m","y">>, <<"u9881","u5956","u793c">>>>>>,
    \* 旗舰: 旗舰 高端 顶级 豪华
       <<<<"u65d7","u8230">>, <<<<"u65d7","u8230">>, <<"u9ad8","u7aef">>, <<"u9876","u7ea7">>, <<"u8c6a","u534e">>>>>>,
    \* 镜头: 镜头 画面 影像 画面
       <<<<"u955c","u5934">>, <<<<"u955c","u5934">>, <<"u753b","u9762">>, <<"u5f71","u50cf">>, <<"u753b","u9762">>>>>>,
    \* 舞台: 舞台 表演 演出现场
       <<<<"u821e","u53f0">>, <<<<"u821e","u53f0">>, <<"u8868","u6f14">>, <<"u6f14","u51fa","u73b0","u573a">>>>>> >>

(***************************************************************************)
(* Normalizers                                                             *)
(***************************************************************************)
\* dict lookup NORMALIZE_MAP[k] (k is known to be a key).
MapLookup(table, k) == (CHOOSE p \in table : p[1] = k)[2]
InMap(table, k) == \E p \in table : p[1] = k

\* segment.normalize_word
normalize_word(w0) ==
    LET w == strip(w0)
        w_lower == lower(w)
        mapped == IF InMap(NORMALIZE_MAP, w_lower)
                  THEN MapLookup(NORMALIZE_MAP, w_lower) ELSE w
    IN  IF w = <<>> THEN <<>>
        ELSE IF IsAlphaWord(mapped) THEN upper(mapped) ELSE mapped

\* for standard, variants in groups.items(): first group, in dict order, of
\* which the word is the label or a variant; the word itself when there is none.
RECURSIVE normalize_semantic_in(_, _, _)
normalize_semantic_in(groups, i, word) ==
    IF i > Len(groups) THEN word
    ELSE IF word \in Range(groups[i][2]) \/ word = groups[i][1] THEN groups[i][1]
    ELSE normalize_semantic_in(groups, i + 1, word)

\* mapper.normalize_semantic
mapper_normalize_semantic(word) == normalize_semantic_in(MAPPER_SEMANTIC_GROUPS, 1, word)

\* segment.normalize_semantic
segment_normalize_semantic(word) == normalize_semantic_in(SEGMENT_SEMANTIC_GROUPS, 1, word)

\* mapper.normalize_word_mapper
normalize_word_mapper(word) == mapper_normalize_semantic(word)

\* Every surface form the tables name: keys and values of the variant table,
\* labels and variants of both semantic-group tables.
TableWords ==
    {p[1] : p \in NORMALIZE_MAP} \cup {p[2] : p \in NORMALIZE_MAP}
    \cup {MAPPER_SEMANTIC_GROUPS[i][1] : i \in DOMAIN MAPPER_SEMANTIC_GROUPS}
    \cup UNION {Range(MAPPER_SEMANTIC_GROUPS[i][2]) : i \in DOMAIN MAPPER_SEMANTIC_GROUPS}
    \cup {SEGMENT_SEMANTIC_GROUPS[i][1] : i \in DOMAIN SEGMENT_SEMANTIC_GROUPS}
    \cup UNION {Range(SEGMENT_SEMANTIC_GROUPS[i][2]) : i \in DOMAIN SEGMENT_SEMANTIC_GROUPS}

\* The key a raw surface form is counted under: tokenize passes it through
\* normalize_word (segment.py line 227), the frequency mapper passes the token
\* it reads through normalize_word_mapper (mapper.py line 73).
pipeline_key(w) == normalize_word_mapper(normalize_word(w))

\* The three canonicalizers applied to one word, and the pipeline's composition.
Canon(w) ==
    [ word |-> normalize_word(w),
      seg  |-> segment_normalize_semantic(w),
      map  |-> mapper_normalize_semantic(w),
      pipe |-> pipeline_key(w) ]
\* ... and applied again, each to its own result.
Recanon(c) ==
    [ word |-> normalize_word(c.word),
      seg  |-> segment_normalize_semantic(c.seg),
      map  |-> mapper_normalize_semantic(c.map),
      pipe |-> pipeline_key(c.pipe) ]

\* A surface form as titles write it: as listed, in capitals, or capitalized.
capitalize(w) == [i \in 1..Len(w) |-> IF i = 1 THEN UpperChar(w[i]) ELSE w[i]]
SurfaceForms == TableWords \cup {upper(w) : w \in TableWords}
                \cup {capitalize(w) : w \in TableWords}

InitNorm ==
    /\ norm_pc = "start"
    /\ norm_word \in SurfaceForms
    /\ norm_once = NoCanon
    /\ norm_twice = NoCanon
    /\ OthersIdle("norm")

Normalize ==
    /\ norm_pc = "start"
    /\ norm_once' = Canon(norm_word)
    /\ norm_pc' = "once"
    /\ UNCHANGED <<norm_word, norm_twice, exceptNorm>>

NormalizeAgain ==
    /\ norm_pc = "once"
    /\ norm_twice' = Recanon(norm_once)
    /\ norm_pc' = "twice"
    /\ UNCHANGED <<norm_word, norm_once, exceptNorm>>

NextNorm == Normalize \/ NormalizeAgain

(***************************************************************************)
(* Frequency mapper (mapper.py)                                            *)
(***************************************************************************)
W_earthquake == <<"u5730","u9707">>               \* 地震
W_respond    == <<"u56de","u5e94">>               \* 回应
W_speakout   == <<"u53d1","u58f0">>               \* 发声
W_statement  == <<"u53d1","u8a00">>               \* 发言
W_football   == <<"u8db3","u7403">>               \* 足球
W_china      == <<"u4e2d","u56fd">>               \* 中国
W_cnfootball == <<"u4e2d","u56fd","u8db3","u7403">> \* 中国足球
W_ai         == <<"u4eba","u5de5","u667a","u80fd">> \* 人工智能
W_smart      == <<"u667a","u80fd">>               \* 智能
W_stance     == <<"u8868","u6001">>               \* 表态

\* segment.main: a title's rank field reaches the segmented file only when
\* rank_str.isdigit().
SegmentRankOk(rank_str) == isdigit(rank_str)

\* segment.main: the line written for a title, "%s,%s" % (rank_str, " ".join(toks)).
SegLine(rank_str, toks) == rank_str \o <<",">> \o join(<<" ">>, toks)

RankStrs == { <<"1">>, <<"5","0">>, <<"6","0">>, <<"0">>, <<"u00b2">>, <<"-","1">>, <<"x">> }
TokenLists ==
    { <<W_earthquake>>,
      <<W_respond, <<"a">>, W_speakout, W_earthquake>> }
SegLines == { SegLine(r, t) : r \in {x \in RankStrs : SegmentRankOk(x)}, t \in TokenLists }

WeightNoFloor(r) == 51 - r

\* weight = 51 - rank; if weight < 1: weight = 1
Weight(r) == IF 51 - r < 1 THEN 1 ELSE 51 - r

\* for token in tokens: normalize, skip keys shorter than 2, skip keys in seen,
\* else add to seen and write "key\tweight". Returns the new seen and the
\* records written, in order.
RECURSIVE EmitTokens(_, _, _)
EmitTokens(tokens, sn, w) ==
    IF tokens = <<>> THEN [seen |-> sn, out |-> <<>>]
    ELSE LET normalized == normalize_word_mapper(Head(tokens))
         IN  IF normalized = <<>> \/ Len(normalized) < 2 \/ normalized \in sn
             THEN EmitTokens(Tail(tokens), sn, w)
             ELSE LET rest == EmitTokens(Tail(tokens), sn \cup {normalized}, w)
                  IN  [seen |-> rest.seen,
                       out |-> <<[key |-> normalized, weight |-> w]>> \o rest.out]

\* One iteration of ``for line in sys.stdin'' of mapper.main, on the locals
\* loc = [seen, bound, rank, weight]: the locals after it and the records written.
MapperLine(loc, raw) ==
    LET line == strip(raw)
        parts == split1(line, ",")
        rank_str == strip(parts[1])
        tokens_str == IF Len(parts) > 1 THEN strip(parts[2]) ELSE <<>>
        parsed == int(rank_str)
        assigned == [loc EXCEPT !.bound = TRUE, !.rank = parsed.val,
                                !.weight = Weight(parsed.val)]
        emitted == EmitTokens(split(tokens_str), loc.seen, assigned.weight)
    IN  IF line = <<>> \/ ~HasChar(line, ",") THEN [loc |-> loc, out |-> <<>>]
        ELSE IF ~parsed.ok THEN [loc |-> loc, out |-> <<>>]
        ELSE IF tokens_str = <<>> THEN [loc |-> assigned, out |-> <<>>]
        ELSE [loc |-> [assigned EXCEPT !.seen = emitted.seen], out |-> emitted.out]

\* mapper.main over a whole input, from fresh locals: the records written.
RECURSIVE MapperRun(_, _)
MapperRun(loc, lines) ==
    IF lines = <<>> THEN <<>>
    ELSE LET r == MapperLine(loc, Head(lines))
         IN  r.out \o MapperRun(r.loc, Tail(lines))

FreshLocals == [seen |-> {}, bound |-> FALSE, rank |-> 0, weight |-> 0]

\* The lines of file f that the assignment a (line number -> instance) gives to m.
RECURSIVE Shard(_, _, _, _)
Shard(f, a, m, i) ==
    IF i > Len(f) THEN <<>>
    ELSE (IF a[i] = m THEN <<f[i]>> ELSE <<>>) \o Shard(f, a, m, i + 1)

\* The input splits handed to the instances are consecutive pieces of the file.
ContiguousSplit(a) == \A i, j \in DOMAIN a : i <= j => a[i] <= a[j]

InitMap ==
    /\ news_seg \in SeqsUpTo(SegLines, MaxLines)
    /\ \E a \in [1..Len(news_seg) -> Mappers] :
           /\ ContiguousSplit(a)
           /\ stdin = [m \in Mappers |-> Shard(news_seg, a, m, 1)]
    /\ seen = [m \in Mappers |-> {}]
    /\ bound = [m \in Mappers |-> FALSE]
    /\ rank = [m \in Mappers |-> 0]
    /\ weight = [m \in Mappers |-> 0]
    /\ stdout = [m \in Mappers |-> <<>>]
    /\ OthersIdle("map")

\* Mapper instance m reads its next line.
MapLine(m) ==
    /\ stdin[m] # <<>>
    /\ LET r == MapperLine([seen |-> seen[m], bound |-> bound[m],
                            rank |-> rank[m], weight |-> weight[m]], Head(stdin[m]))
       IN  /\ seen' = [seen EXCEPT ![m] = r.loc.seen]
           /\ bound' = [bound EXCEPT ![m] = r.loc.bound]
           /\ rank' = [rank EXCEPT ![m] = r.loc.rank]
           /\ weight' = [weight EXCEPT ![m] = r.loc.weight]
           /\ stdout' = [stdout EXCEPT ![m] = @ \o r.out]
    /\ stdin' = [stdin EXCEPT ![m] = Tail(@)]
    /\ UNCHANGED <<news_seg, exceptMap>>

MapDone == \A m \in Mappers : stdin[m] = <<>>

NextMap == \E m \in Mappers : MapLine(m)

(***************************************************************************)
(* Inclusion dedup (reducer.py, and the same text in segment.py) and       *)
(* semantic merge (segment.py). A (word, count) pair is <<word, count>>.   *)
(***************************************************************************)
\* sorted(xs, key=lambda x: x[1], reverse=True) and list.sort with the same key:
\* stable, so pairs of equal count keep their order.
RECURSIVE InsertDesc(_, _)
InsertDesc(xs, e) ==
    IF xs = <<>> THEN <<e>>
    ELSE IF Head(xs)[2] >= e[2] THEN <<Head(xs)>> \o InsertDesc(Tail(xs), e)
    ELSE <<e>> \o xs
RECURSIVE SortDesc(_)
SortDesc(xs) ==
    IF xs = <<>> THEN <<>>
    ELSE InsertDesc(SortDesc(SubSeq(xs, 1, Len(xs) - 1)), xs[Len(xs)])

\* list.remove(e): the first element equal to e is removed.
RECURSIVE RemoveFirst(_, _)
RemoveFirst(xs, e) ==
    IF xs = <<>> THEN <<>>
    ELSE IF Head(xs) = e THEN Tail(xs)
    ELSE <<Head(xs)>> \o RemoveFirst(Tail(xs), e)

\* The counts a (at most 1000) for which the double product a * 0.7 falls just
\* below the integer 7a/10 (0.7 is not a binary fraction): 90 * 0.7 is
\* 62.99999999999999.
FloatProductBelow ==
    {90, 170, 180, 330, 340, 350, 360} \cup {650 + 10 * k : k \in 0..8}

\* count > existing_count * 0.7, an int compared with a double.
ExceedsThreshold(count, existing_count) ==
    IF existing_count \in FloatProductBelow
    THEN 10 * count >= 7 * existing_count
    ELSE 10 * count > 7 * existing_count

\* for existing_word, existing_count in result: ... The list iterator is an
\* index i into result; result.remove() during the walk shifts the later
\* elements down while the index still advances.
RECURSIVE DedupScan(_, _, _, _)
DedupScan(res, i, word, count) ==
    IF i > Len(res) THEN [result |-> res, should_add |-> TRUE]
    ELSE IF IsSubstring(word, res[i][1]) THEN [result |-> res, should_add |-> FALSE]
    ELSE IF IsSubstring(res[i][1], word)
         THEN IF ExceedsThreshold(count, res[i][2])
              THEN DedupScan(RemoveFirst(res, res[i]), i + 1, word, count)
              ELSE [result |-> res, should_add |-> FALSE]
    ELSE DedupScan(res, i + 1, word, count)

\* The iteration when the counts of the words a candidate replaces are added
\* to the candidate.
RECURSIVE CountSum(_)
CountSum(wc) == IF wc = <<>> THEN 0 ELSE Head(wc)[2] + CountSum(Tail(wc))
DedupCandidateAbsorbing(res, cand) ==
    LET r == DedupScan(res, 1, cand[1], cand[2])
    IN  IF r.should_add
        THEN Append(r.result, <<cand[1], cand[2] + CountSum(res) - CountSum(r.result)>>)
        ELSE r.result

\* One iteration of ``for word, count in sorted_words''.
DedupCandidate(res, cand) ==
    LET r == DedupScan(res, 1, cand[1], cand[2])
    IN  IF r.should_add THEN Append(r.result, cand) ELSE r.result

RECURSIVE DedupWalk(_, _)
DedupWalk(res, cands) ==
    IF cands = <<>> THEN res ELSE DedupWalk(DedupCandidate(res, Head(cands)), Tail(cands))

\* reducer.deduplicate_by_inclusion
deduplicate_by_inclusion(wc) ==
    IF wc = <<>> THEN <<>> ELSE SortDesc(DedupWalk(<<>>, SortDesc(wc)))

\* merged[normalized] = count: the earlier total is overwritten.
RECURSIVE DictPut(_, _, _)
DictPut(d, k, v) ==
    IF d = <<>> THEN <<<<k, v>>>>
    ELSE IF Head(d)[1] = k THEN <<<<k, v>>>> \o Tail(d)
    ELSE <<Head(d)>> \o DictPut(Tail(d), k, v)

\* merged[normalized] += count, in a dict: a key keeps the place of its first
\* insertion.
RECURSIVE DictAdd(_, _, _)
DictAdd(d, k, v) ==
    IF d = <<>> THEN <<<<k, v>>>>
    ELSE IF Head(d)[1] = k THEN <<<<k, Head(d)[2] + v>>>> \o Tail(d)
    ELSE <<Head(d)>> \o DictAdd(Tail(d), k, v)

RECURSIVE MergeWalk(_, _)
MergeWalk(d, wc) ==
    IF wc = <<>> THEN d
    ELSE MergeWalk(DictAdd(d, segment_normalize_semantic(Head(wc)[1]), Head(wc)[2]), Tail(wc))

\* segment.merge_semantic_duplicates
merge_semantic_duplicates(wc) ==
    IF wc = <<>> THEN <<>> ELSE SortDesc(MergeWalk(<<>>, wc))

\* A list of (word, count) with distinct words, as a reduction leaves it.
DistinctWords(wc) == \A i, j \in DOMAIN wc : i # j => wc[i][1] # wc[j][1]

\* The aggregate counts the dedup is run on: each word with a few counts.
DedupPairs ==
    ({W_ai} \X {100}) \cup ({W_smart} \X {95, 100}) \cup ({W_china} \X {9, 10})
    \cup ({W_football} \X {9, 10, 90}) \cup ({W_cnfootball} \X {5, 7, 8, 63})

InitDedup ==
    /\ dd_pc = "call"
    /\ words_with_counts \in {wc \in SeqsUpTo(DedupPairs, MaxWords) : DistinctWords(wc)}
    /\ sorted_words = <<>>
    /\ result = <<>>
    /\ OthersIdle("dedup")

\* if not words_with_counts: return []; sorted_words = sorted(...); result = []
DedupSort ==
    /\ dd_pc = "call"
    /\ sorted_words' = SortDesc(words_with_counts)
    /\ result' = <<>>
    /\ dd_pc' = IF words_with_counts = <<>> THEN "returned" ELSE "walk"
    /\ UNCHANGED <<words_with_counts, exceptDd>>

\* The walk takes the next candidate.
DedupStep ==
    /\ dd_pc = "walk"
    /\ sorted_words # <<>>
    /\ result' = DedupCandidate(result, Head(sorted_words))
    /\ sorted_words' = Tail(sorted_words)
    /\ UNCHANGED <<dd_pc, words_with_counts, exceptDd>>

\* result.sort(...); return result
DedupReturn ==
    /\ dd_pc = "walk"
    /\ sorted_words = <<>>
    /\ result' = SortDesc(result)
    /\ dd_pc' = "returned"
    /\ UNCHANGED <<words_with_counts, sorted_words, exceptDd>>

NextDedup == DedupSort \/ DedupStep \/ DedupReturn

MergeWords == {W_respond, W_speakout, W_stance, W_statement, W_earthquake, W_football}
MergeCounts == {2, 3, 5}

InitMerge ==
    /\ mg_pc = "call"
    /\ mg_words \in SeqsUpTo(MergeWords \X MergeCounts, MaxWords)
    /\ merged = <<>>
    /\ OthersIdle("merge")

MergeSemantic ==
    /\ mg_pc = "call"
    /\ merged' = merge_semantic_duplicates(mg_words)
    /\ mg_pc' = "returned"
    /\ UNCHANGED <<mg_words, exceptMg>>

NextMerge == MergeSemantic

(***************************************************************************)
(* Streaming reducers                                                      *)
(***************************************************************************)
\* reducer.py: line = line.strip(); skip when empty; parts = line.split("\t", 1);
\* skip unless len(parts) == 2; cnt = int(parts[1]), skip on an exception.
ReducerParse(raw) ==
    LET line == strip(raw)
        parts == split1(line, "\t")
        cnt == IF Len(parts) = 2 THEN int(parts[2]) ELSE [ok |-> FALSE, val |-> 0]
    IN  IF line = <<>> \/ Len(parts) # 2 \/ ~cnt.ok
        THEN [ok |-> FALSE, key |-> <<>>, count |-> 0]
        ELSE [ok |-> TRUE, key |-> parts[1], count |-> cnt.val]

\* cooccurrence_reducer.py: skip when the stripped line is empty or has no TAB;
\* pair_str, count_str = line.split("\t", 1); count = int(count_str), skip on
\* an exception.
CoocReducerParse(raw) ==
    LET line == strip(raw)
        parts == split1(line, "\t")
        cnt == IF Len(parts) = 2 THEN int(parts[2]) ELSE [ok |-> FALSE, val |-> 0]
    IN  IF line = <<>> \/ ~HasChar(line, "\t") \/ ~cnt.ok
        THEN [ok |-> FALSE, key |-> <<>>, count |-> 0]
        ELSE [ok |-> TRUE, key |-> parts[1], count |-> cnt.val]

\* time_dist_reducer.py: the same text with key, count_str.
TimeReducerParse(raw) ==
    LET line == strip(raw)
        parts == split1(line, "\t")
        cnt == IF Len(parts) = 2 THEN int(parts[2]) ELSE [ok |-> FALSE, val |-> 0]
    IN  IF line = <<>> \/ ~HasChar(line, "\t") \/ ~cnt.ok
        THEN [ok |-> FALSE, key |-> <<>>, count |-> 0]
        ELSE [ok |-> TRUE, key |-> parts[1], count |-> cnt.val]

\* A record line "key\tvalue" as the mappers write it.
RecordLine(key, value) == key \o <<"\t">> \o value

FreqKeys == {W_statement, W_speakout, W_football, W_cnfootball}
CoocKeys == { W_china \o <<",">> \o W_football, W_china \o <<",">> \o W_earthquake,
              W_earthquake \o <<",">> \o W_football }
TimeKeys == { <<"0","9",",">> \o W_earthquake, <<"1","4",",">> \o W_earthquake,
              <<"0","9",",">> \o W_football }
\* Lines no mapper writes: one without a TAB, one whose count is not an integer.
MalformedLines(keys) ==
    LET k == CHOOSE x \in keys : TRUE IN {k, RecordLine(k, <<"x">>)}
ReducerLines(j) ==
    IF j = "freq"
    THEN {RecordLine(k, v) : k \in FreqKeys, v \in {<<"1">>, <<"5","0">>}}
         \cup MalformedLines(FreqKeys)
    ELSE IF j = "cooc"
    THEN {RecordLine(k, <<"1">>) : k \in CoocKeys} \cup MalformedLines(CoocKeys)
    ELSE {RecordLine(k, <<"1">>) : k \in TimeKeys} \cup MalformedLines(TimeKeys)

InitReduce ==
    /\ job \in {"freq", "cooc", "time"}
    /\ red_pc = "reading"
    /\ red_input \in SeqsUpTo(ReducerLines(job), MaxRecords)
    /\ red_stdin = red_input
    /\ has_current = FALSE
    /\ current_key = <<>>
    /\ current_count = 0
    /\ aggregated = <<>>
    /\ red_stdout = <<>>
    /\ OthersIdle("reduce")

\* reducer.py, one iteration of ``for line in sys.stdin''.
ReducerLine ==
    /\ job = "freq" /\ red_pc = "reading" /\ red_stdin # <<>>
    /\ LET rec == ReducerParse(Head(red_stdin))
       IN  IF ~rec.ok
           THEN UNCHANGED <<has_current, current_key, current_count, aggregated>>
           ELSE IF has_current /\ current_key = rec.key
           THEN /\ current_count' = current_count + rec.count
                /\ UNCHANGED <<has_current, current_key, aggregated>>
           ELSE /\ aggregated' = IF has_current
                                 THEN Append(aggregated, <<current_key, current_count>>)
                                 ELSE aggregated
                /\ has_current' = TRUE
                /\ current_key' = rec.key
                /\ current_count' = rec.count
    /\ red_stdin' = Tail(red_stdin)
    /\ UNCHANGED <<job, red_pc, red_input, red_stdout, exceptRed>>

\* reducer.py at end of input, without the flush of the trailing group.
ReducerEndNoFlush ==
    /\ job = "freq" /\ red_pc = "reading" /\ red_stdin = <<>>
    /\ red_stdout' = deduplicate_by_inclusion(aggregated)
    /\ red_pc' = "done"
    /\ UNCHANGED <<job, red_input, red_stdin, has_current, current_key, current_count,
                   aggregated, exceptRed>>

\* reducer.py at end of input: the trailing group is appended, and when
\* aggregated is not empty the deduplicated list is written.
ReducerEnd ==
    /\ job = "freq" /\ red_pc = "reading" /\ red_stdin = <<>>
    /\ aggregated' = IF has_current
                     THEN Append(aggregated, <<current_key, current_count>>)
                     ELSE aggregated
    /\ red_stdout' = IF aggregated' # <<>> THEN deduplicate_by_inclusion(aggregated')
                     ELSE <<>>
    /\ red_pc' = "done"
    /\ UNCHANGED <<job, red_input, red_stdin, has_current, current_key, current_count,
                   exceptRed>>

\* cooccurrence_reducer.main, one iteration of the loop: the finished group is
\* printed when the key changes.
CoocReducerLine ==
    /\ job = "cooc" /\ red_pc = "reading" /\ red_stdin # <<>>
    /\ LET rec == CoocReducerParse(Head(red_stdin))
       IN  IF ~rec.ok
           THEN UNCHANGED <<has_current, current_key, current_count, red_stdout>>
           ELSE IF has_current /\ current_key = rec.key
           THEN /\ current_count' = current_count + rec.count
                /\ UNCHANGED <<has_current, current_key, red_stdout>>
           ELSE /\ red_stdout' = IF has_current
                                 THEN Append(red_stdout, <<current_key, current_count>>)
                                 ELSE red_stdout
                /\ has_current' = TRUE
                /\ current_key' = rec.key
                /\ current_count' = rec.count
    /\ red_stdin' = Tail(red_stdin)
    /\ UNCHANGED <<job, red_pc, red_input, aggregated, exceptRed>>

\* cooccurrence_reducer.main after the loop: the last pair is printed.
CoocReducerEnd ==
    /\ job = "cooc" /\ red_pc = "reading" /\ red_stdin = <<>>
    /\ red_stdout' = IF has_current
                     THEN Append(red_stdout, <<current_key, current_count>>)
                     ELSE red_stdout
    /\ red_pc' = "done"
    /\ UNCHANGED <<job, red_input, red_stdin, has_current, current_key, current_count,
                   aggregated, exceptRed>>

\* The loop when a malformed line ends the running group: the group is
\* printed and the accumulator cleared.
TimeReducerLineSplit ==
    /\ job = "time" /\ red_pc = "reading" /\ red_stdin # <<>>
    /\ LET rec == TimeReducerParse(Head(red_stdin))
       IN  IF ~rec.ok
           THEN /\ red_stdout' = IF has_current
                                 THEN Append(red_stdout, <<current_key, current_count>>)
                                 ELSE red_stdout
                /\ has_current' = FALSE
                /\ current_key' = <<>>
                /\ current_count' = 0
           ELSE IF has_current /\ current_key = rec.key
           THEN /\ current_count' = current_count + rec.count
                /\ UNCHANGED <<has_current, current_key, red_stdout>>
           ELSE /\ red_stdout' = IF has_current
                                 THEN Append(red_stdout, <<current_key, current_count>>)
                                 ELSE red_stdout
                /\ has_current' = TRUE
                /\ current_key' = rec.key
                /\ current_count' = rec.count
    /\ red_stdin' = Tail(red_stdin)
    /\ UNCHANGED <<job, red_pc, red_input, aggregated, exceptRed>>

\* time_dist_reducer.main, one iteration of the loop.
TimeReducerLine ==
    /\ job = "time" /\ red_pc = "reading" /\ red_stdin # <<>>
    /\ LET rec == TimeReducerParse(Head(red_stdin))
       IN  IF ~rec.ok
           THEN UNCHANGED <<has_current, current_key, current_count, red_stdout>>
           ELSE IF has_current /\ current_key = rec.key
           THEN /\ current_count' = current_count + rec.count
                /\ UNCHANGED <<has_current, current_key, red_stdout>>
           ELSE /\ red_stdout' = IF has_current
                                 THEN Append(red_stdout, <<current_key, current_count>>)
                                 ELSE red_stdout
                /\ has_current' = TRUE
                /\ current_key' = rec.key
                /\ current_count' = rec.count
    /\ red_stdin' = Tail(red_stdin)
    /\ UNCHANGED <<job, red_pc, red_input, aggregated, exceptRed>>

\* time_dist_reducer.main after the loop: the last key is printed.
TimeReducerEnd ==
    /\ job = "time" /\ red_pc = "reading" /\ red_stdin = <<>>
    /\ red_stdout' = IF has_current
                     THEN Append(red_stdout, <<current_key, current_count>>)
                     ELSE red_stdout
    /\ red_pc' = "done"
    /\ UNCHANGED <<job, red_input, red_stdin, has_current, current_key, current_count,
                   aggregated, exceptRed>>

NextReduce ==
    \/ ReducerLine \/ ReducerEnd
    \/ CoocReducerLine \/ CoocReducerEnd
    \/ TimeReducerLine \/ TimeReducerEnd

(***************************************************************************)
(* Title pipeline (segment.py): token filter, phrase building, scoring.    *)
(* The tagger (jieba) is external: what it returns for a cleaned title is  *)
(* an input, a sequence of <<surface, flag>>. A flag is a sequence of      *)
(* characters like a word.                                                 *)
(***************************************************************************)
\* segment.py BAD_WORDS
BAD_WORDS ==
    \* 粉丝 感动 预告片 回收 产业链 摔倒 房型
    { <<"u7c89","u4e1d">>, <<"u611f","u52a8">>, <<"u9884","u544a","u7247">>, <<"u56de","u6536">>, <<"u4ea7","u4e1a","u94fe">>, <<"u6454","u5012">>, <<"u623f","u578b">>,
    \* 妹妹 妹 妹子 小妹 儿子 女儿 老公 老婆
      <<"u59b9","u59b9">>, <<"u59b9">>, <<"u59b9","u5b50">>, <<"u5c0f","u59b9">>, <<"u513f","u5b50">>, <<"u5973","u513f">>, <<"u8001","u516c">>, <<"u8001","u5a46">>,
    \* 姐姐 姐 哥哥 哥 妈妈 妈 爸爸 爸
      <<"u59d0","u59d0">>, <<"u59d0">>, <<"u54e5","u54e5">>, <<"u54e5">>, <<"u5988","u5988">>, <<"u5988">>, <<"u7238","u7238">>, <<"u7238">>,
    \* 小 大 太 很 真的 觉得 好像 一个
      <<"u5c0f">>, <<"u5927">>, <<"u592a">>, <<"u5f88">>, <<"u771f","u7684">>, <<"u89c9","u5f97">>, <<"u597d","u50cf">>, <<"u4e00","u4e2a">>,
    \* 现场 视频 照片 网友 热搜 回应 最新
      <<"u73b0","u573a">>, <<"u89c6","u9891">>, <<"u7167","u7247">>, <<"u7f51","u53cb">>, <<"u70ed","u641c">>, <<"u56de","u5e94">>, <<"u6700","u65b0">>,
    \* 爆料 真相 原因 结果 进展 后续 瓜
      <<"u7206","u6599">>, <<"u771f","u76f8">>, <<"u539f","u56e0">>, <<"u7ed3","u679c">>, <<"u8fdb","u5c55">>, <<"u540e","u7eed">>, <<"u74dc">>,
    \* 妹小 这个 那个 什么 怎么 如何 为什么
      <<"u59b9","u5c0f">>, <<"u8fd9","u4e2a">>, <<"u90a3","u4e2a">>, <<"u4ec0","u4e48">>, <<"u600e","u4e48">>, <<"u5982","u4f55">>, <<"u4e3a","u4ec0","u4e48">>,
    \* 已经 开始 结束 终于 可能 应该 需要
      <<"u5df2","u7ecf">>, <<"u5f00","u59cb">>, <<"u7ed3","u675f">>, <<"u7ec8","u4e8e">>, <<"u53ef","u80fd">>, <<"u5e94","u8be5">>, <<"u9700","u8981">>,
    \* 大家 有人 没有 不是 就是
      <<"u5927","u5bb6">>, <<"u6709","u4eba">>, <<"u6ca1","u6709">>, <<"u4e0d","u662f">>, <<"u5c31","u662f">>,
    \* 但是 而且 虽然 因为 所以 如果 只有
      <<"u4f46","u662f">>, <<"u800c","u4e14">>, <<"u867d","u7136">>, <<"u56e0","u4e3a">>, <<"u6240","u4ee5">>, <<"u5982","u679c">>, <<"u53ea","u6709">>,
    \* 自己 别人 事情 问题 东西 时候 地方
      <<"u81ea","u5df1">>, <<"u522b","u4eba">>, <<"u4e8b","u60c5">>, <<"u95ee","u9898">>, <<"u4e1c","u897f">>, <<"u65f6","u5019">>, <<"u5730","u65b9">>,
    \* 一下 一点 一些 这种 那样 怎样
      <<"u4e00","u4e0b">>, <<"u4e00","u70b9">>, <<"u4e00","u4e9b">>, <<"u8fd9","u79cd">>, <<"u90a3","u6837">>, <<"u600e","u6837">>,
    \* 确实 简直 居然 竟然 总算
      <<"u786e","u5b9e">>, <<"u7b80","u76f4">>, <<"u5c45","u7136">>, <<"u7adf","u7136">>, <<"u603b","u7b97">>,
    \* 看看 说说 听听 问问 想想 念念
      <<"u770b","u770b">>, <<"u8bf4","u8bf4">>, <<"u542c","u542c">>, <<"u95ee","u95ee">>, <<"u60f3","u60f3">>, <<"u5ff5","u5ff5">>,
    \* 今天 昨天 明天 今年 去年 明年 以前
      <<"u4eca","u5929">>, <<"u6628","u5929">>, <<"u660e","u5929">>, <<"u4eca","u5e74">>, <<"u53bb","u5e74">>, <<"u660e","u5e74">>, <<"u4ee5","u524d">>,
    \* 以后 现在 马上 立刻 正在 曾经
      <<"u4ee5","u540e">>, <<"u73b0","u5728">>, <<"u9a6c","u4e0a">>, <<"u7acb","u523b">>, <<"u6b63","u5728">>, <<"u66fe","u7ecf">>,
    \* 还有 只有 都是 总是 经常 偶尔
      <<"u8fd8","u6709">>, <<"u53ea","u6709">>, <<"u90fd","u662f">>, <<"u603b","u662f">>, <<"u7ecf","u5e38">>, <<"u5076","u5c14">>,
    \* 也许 大概 似乎 仿佛 反正
      <<"u4e5f","u8bb8">>, <<"u5927","u6982">>, <<"u4f3c","u4e4e">>, <<"u4eff","u4f5b">>, <<"u53cd","u6b63">>,
    \* 实在 果然 难怪 怪不得
      <<"u5b9e","u5728">>, <<"u679c","u7136">>, <<"u96be","u602a">>, <<"u602a","u4e0d","u5f97">>,
    \* 千万 一定 必须
      <<"u5343","u4e07">>, <<"u4e00","u5b9a">>, <<"u5fc5","u987b">>,
    \* 快来 快去 快看 快听 快说 快打
      <<"u5feb","u6765">>, <<"u5feb","u53bb">>, <<"u5feb","u770b">>, <<"u5feb","u542c">>, <<"u5feb","u8bf4">>, <<"u5feb","u6253">>,
    \* 来了 去了 看了 听了 说了 打了
      <<"u6765","u4e86">>, <<"u53bb","u4e86">>, <<"u770b","u4e86">>, <<"u542c","u4e86">>, <<"u8bf4","u4e86">>, <<"u6253","u4e86">>,
    \* 热搜榜 热榜 话题 超话 广场
      <<"u70ed","u641c","u699c">>, <<"u70ed","u699c">>, <<"u8bdd","u9898">>, <<"u8d85","u8bdd">>, <<"u5e7f","u573a">>,
    \* 微博 微博之夜 微博电影
      <<"u5fae","u535a">>, <<"u5fae","u535a","u4e4b","u591c">>, <<"u5fae","u535a","u7535","u5f71">>,
    \* 工作室 公司 方面 消息
      <<"u5de5","u4f5c","u5ba4">>, <<"u516c","u53f8">>, <<"u65b9","u9762">>, <<"u6d88","u606f">>,
    \* 第一时间 最新消息 刚刚 官方回应
      <<"u7b2c","u4e00","u65f6","u95f4">>, <<"u6700","u65b0","u6d88","u606f">>, <<"u521a","u521a">>, <<"u5b98","u65b9","u56de","u5e94">>,
    \* 强烈推荐 推荐 来看 这部 太好
      <<"u5f3a","u70c8","u63a8","u8350">>, <<"u63a8","u8350">>, <<"u6765","u770b">>, <<"u8fd9","u90e8">>, <<"u592a","u597d">>,
    \* 太好哭 太好笑 一起来 一起来看
      <<"u592a","u597d","u54ed">>, <<"u592a","u597d","u7b11">>, <<"u4e00","u8d77","u6765">>, <<"u4e00","u8d77","u6765","u770b">> }

\* segment.py BAD_COMPONENT
BAD_COMPONENT ==
    \* 妹 小 姐 哥 儿子 女儿 粉丝 微博 热搜
    { <<"u59b9">>, <<"u5c0f">>, <<"u59d0">>, <<"u54e5">>, <<"u513f","u5b50">>, <<"u5973","u513f">>, <<"u7c89","u4e1d">>, <<"u5fae","u535a">>, <<"u70ed","u641c">> }

\* segment.py ALLOW_POS_PREFIX and ALLOW_POS_EXACT
ALLOW_POS_PREFIX == { <<"n">>, <<"v">>, <<"a">>, <<"e","n","g">> }
ALLOW_POS_EXACT == { <<"n","r">>, <<"n","s">>, <<"n","t">>, <<"n","z">>, <<"e","n","g">>, <<"a","n">>, <<"i">>, <<"j">> }

\* str.startswith
startswith(w, prefix) == Len(w) >= Len(prefix) /\ SubSeq(w, 1, Len(prefix)) = prefix

\* [\u4e00-\u9fff]: the character, written as its code point "uXXXX", lies in
\* U+4E00..U+9FFF.
IsHanChar(c) ==
    /\ Len(c) = 5
    /\ SubSeq(c, 1, 1) = "u"
    /\ \/ SubSeq(c, 2, 2) \in {"5", "6", "7", "8", "9"}
       \/ SubSeq(c, 2, 2) = "4" /\ SubSeq(c, 3, 3) \in {"e", "f"}

\* re.search(r"[\u4e00-\u9fff]", w)
HasHan(w) == \E i \in DOMAIN w : IsHanChar(w[i])

\* KINSHIP_RE.search(w): one of 妹 姐 哥 弟 嫂 姨 叔 舅 爸 妈 爹 娘, or one of
\* 儿子 女儿 老公 老婆, occurs in w.
KINSHIP_search(w) ==
    \/ \E i \in DOMAIN w :
           w[i] \in { "u59b9", "u59d0", "u54e5", "u5f1f", "u5ac2", "u59e8", "u53d4", "u8205", "u7238", "u5988", "u7239", "u5a18" }
    \/ \E k \in { <<"u513f","u5b50">>, <<"u5973","u513f">>, <<"u8001","u516c">>, <<"u8001","u5a46">> } : IsSubstring(k, w)

\* segment.is_bad_token
is_bad_token(w, stop_set) ==
    \/ w = <<>>
    \/ w \in stop_set
    \/ w \in BAD_WORDS
    \/ isdigit(w)
    \/ IsAlphaWord(w) /\ Len(w) < 2
    \/ HasHan(w) /\ (Len(w) < 2 \/ Len(w) > 10)
    \/ KINSHIP_search(w) /\ Len(w) <= 4

\* segment.allow_by_pos
allow_by_pos(flag) ==
    /\ flag # <<>>
    /\ \/ flag \in ALLOW_POS_EXACT
       \/ \E p \in ALLOW_POS_PREFIX : startswith(flag, p)

\* tokenize, lines 226-235: the loop over pseg.cut(title, HMM=False). A pair is
\* kept when its normalized word is not empty, its flag is allowed and the
\* word is not a bad token; pos_list gets (normalized word, flag).
RECURSIVE FilterPseg(_, _)
FilterPseg(cut, stop_set) ==
    IF cut = <<>> THEN <<>>
    ELSE LET w == normalize_word(Head(cut)[1])
             flag == Head(cut)[2]
         IN  (IF w = <<>> \/ ~allow_by_pos(flag) \/ is_bad_token(w, stop_set)
              THEN <<>> ELSE << <<w, flag>> >>)
             \o FilterPseg(Tail(cut), stop_set)

\* tokenize, lines 237-242: the loop over jieba.lcut(title, HMM=False), which
\* returns the surfaces without flags; pos_list gets (normalized word, "").
RECURSIVE FilterLcut(_, _)
FilterLcut(cut, stop_set) ==
    IF cut = <<>> THEN <<>>
    ELSE LET w == normalize_word(Head(cut)[1])
         IN  (IF is_bad_token(w, stop_set) THEN <<>> ELSE << <<w, <<>>>> >>)
             \o FilterLcut(Tail(cut), stop_set)

\* pos_list after the filter loop; tokens is its column of words.
FilterTagged(cut, pseg, stop_set) ==
    IF pseg THEN FilterPseg(cut, stop_set) ELSE FilterLcut(cut, stop_set)
WordsOf(pos_list) == [i \in 1..Len(pos_list) |-> pos_list[i][1]]

\* ok1 / ok2 of the phrase loop
PhraseFlagOk(f) ==
    f \in ALLOW_POS_EXACT \/ startswith(f, <<"n">>) \/ startswith(f, <<"a">>) \/ f = <<>>

\* for w, f in pos_list: if w == word: continue; if word in w: score += 2
RECURSIVE ContainBonus(_, _)
ContainBonus(word, pos_list) ==
    IF pos_list = <<>> THEN 0
    ELSE (IF Head(pos_list)[1] # word /\ IsSubstring(word, Head(pos_list)[1]) THEN 2 ELSE 0)
         + ContainBonus(word, Tail(pos_list))

\* segment.calculate_word_score
calculate_word_score(word, flag1, flag2, pos_list) ==
    LET high_value_flags == { <<"n","r">>, <<"n","s">>, <<"n","t">>, <<"n","z">> }
    IN  Len(word) * 2
        + (IF flag1 \in ALLOW_POS_EXACT \/ flag2 \in ALLOW_POS_EXACT THEN 10 ELSE 0)
        + (IF startswith(flag1, <<"n">>) \/ startswith(flag2, <<"n">>) THEN 5 ELSE 0)
        + (IF startswith(flag1, <<"a">>) \/ startswith(flag2, <<"a">>) THEN 3 ELSE 0)
        + (IF flag1 \in high_value_flags \/ flag2 \in high_value_flags THEN 15 ELSE 0)
        + ContainBonus(word, pos_list)

\* One iteration of ``for i in range(len(pos_list) - 1)'': the (phrase, score)
\* appended, if any.
PhraseAt(pos_list, i, stop_set) ==
    LET w1 == pos_list[i][1]
        f1 == pos_list[i][2]
        w2 == pos_list[i + 1][1]
        f2 == pos_list[i + 1][2]
        phrase == normalize_word(w1 \o w2)
    IN  IF w1 \in BAD_COMPONENT \/ w2 \in BAD_COMPONENT THEN <<>>
        ELSE IF KINSHIP_search(w1) \/ KINSHIP_search(w2) THEN <<>>
        ELSE IF ~(PhraseFlagOk(f1) /\ PhraseFlagOk(f2)) THEN <<>>
        ELSE IF is_bad_token(phrase, stop_set) THEN <<>>
        ELSE IF Len(phrase) < 2 \/ Len(phrase) > 8 THEN <<>>
        ELSE << <<phrase, calculate_word_score(phrase, f1, f2, pos_list)>> >>

\* phrases after the phrase loop, in discovery order.
RECURSIVE PhrasesFrom(_, _, _)
PhrasesFrom(pos_list, i, stop_set) ==
    IF i > Len(pos_list) - 1 THEN <<>>
    ELSE PhraseAt(pos_list, i, stop_set) \o PhrasesFrom(pos_list, i + 1, stop_set)

\* for x in xs: if x not in seen: seen.add(x); final_tokens.append(x)
RECURSIVE AppendUnseen(_, _)
AppendUnseen(final_tokens, xs) ==
    IF xs = <<>> THEN final_tokens
    ELSE AppendUnseen(IF Head(xs) \in Range(final_tokens) THEN final_tokens
                      ELSE Append(final_tokens, Head(xs)),
                      Tail(xs))

\* The list without the cut at 40 entries.
AssembleUncut(sorted_phrases, toks) ==
    AppendUnseen(AppendUnseen(<<>>, WordsOf(sorted_phrases)), toks)

\* tokenize, lines 274-286: phrases first, then the tokens, each string once;
\* return final_tokens[:40]
Assemble(sorted_phrases, toks) ==
    LET final_tokens == AppendUnseen(AppendUnseen(<<>>, WordsOf(sorted_phrases)), toks)
    IN  SubSeq(final_tokens, 1, IF Len(final_tokens) < 40 THEN Len(final_tokens) ELSE 40)

\* segment.tokenize, given what the tagger returns for the cleaned title (an
\* empty cleaned title has no token, and both early returns give []).
tokenize(cut, pseg, stop_set) ==
    LET pos_list == FilterTagged(cut, pseg, stop_set)
    IN  IF pos_list = <<>> THEN <<>>
        ELSE Assemble(SortDesc(PhrasesFrom(pos_list, 1, stop_set)), WordsOf(pos_list))

\* What the tagger returns: surfaces with their flags. 的 carries a flag the
\* filter rejects, 回应 is blacklisted, 5G is a mixed letter-digit token.
TaggedWords ==
    { <<<<"u4e2d","u56fd">>, <<"n","s">>>>, <<<<"u8db3","u7403">>, <<"n">>>>, <<<<"u5730","u9707">>, <<"n">>>>, <<<<"u7684">>, <<"u","j">>>>,
      <<<<"u56de","u5e94">>, <<"v">>>>, <<<<"u53d1","u5e03">>, <<"v">>>>, <<<<"5","G">>, <<"e","n","g">>>> }
MaxTitleTokens == 3

\* A title of 21 two-letter words, the last one tagged as a place name.
LongCut ==
    [i \in 1..21 |-> << <<"a", LowerLetters[i]>>, IF i = 21 THEN <<"n","s">> ELSE <<"e","n","g">> >>]
\* A title that repeats a pair of words.
RepeatCut ==
    << <<<<"u4e2d","u56fd">>, <<"n","s">>>>, <<<<"u8db3","u7403">>, <<"n">>>>, <<<<"u4e2d","u56fd">>, <<"n","s">>>>, <<<<"u8db3","u7403">>, <<"n">>>> >>
\* A title whose last word holds the phrase of the first two.
ContainCut ==
    << <<<<"u4e2d","u56fd">>, <<"n","s">>>>, <<<<"u8db3","u7403">>, <<"n">>>>, <<<<"u4e2d","u56fd","u8db3","u7403","u961f">>, <<"n","t">>>> >>
Cuts == SeqsUpTo(TaggedWords, MaxTitleTokens) \cup {LongCut, RepeatCut, ContainCut}
StopSets == { {}, { <<"u5730","u9707">> } }

InitTok ==
    /\ tok_pc = "start"
    /\ tok_tagged \in Cuts
    /\ tok_pseg \in BOOLEAN
    /\ tok_stop_set \in StopSets
    /\ tok_tokens = <<>> /\ tok_pos_list = <<>> /\ tok_phrases = <<>> /\ tok_final = <<>>
    /\ OthersIdle("tokenize")

\* tokenize, lines 222-245: the filter loop; return [] when nothing is kept.
TokFilter ==
    /\ tok_pc = "start"
    /\ tok_pos_list' = FilterTagged(tok_tagged, tok_pseg, tok_stop_set)
    /\ tok_tokens' = WordsOf(tok_pos_list')
    /\ tok_pc' = IF tok_pos_list' = <<>> THEN "done" ELSE "filtered"
    /\ UNCHANGED <<tok_tagged, tok_pseg, tok_stop_set, tok_phrases, tok_final, exceptTok>>

\* tokenize, lines 247-270: the phrase loop.
TokPhrases ==
    /\ tok_pc = "filtered"
    /\ tok_phrases' = PhrasesFrom(tok_pos_list, 1, tok_stop_set)
    /\ tok_pc' = "built"
    /\ UNCHANGED <<tok_tagged, tok_pseg, tok_stop_set, tok_tokens, tok_pos_list, tok_final,
                   exceptTok>>

\* tokenize, lines 272-286: phrases.sort, the two dedup loops, the cut.
TokAssemble ==
    /\ tok_pc = "built"
    /\ tok_phrases' = SortDesc(tok_phrases)
    /\ tok_final' = Assemble(tok_phrases', tok_tokens)
    /\ tok_pc' = "done"
    /\ UNCHANGED <<tok_tagged, tok_pseg, tok_stop_set, tok_tokens, tok_pos_list, exceptTok>>

NextTok == TokFilter \/ TokPhrases \/ TokAssemble

(***************************************************************************)
(* segment.main: news_raw.txt -> news_seg.txt. A line of news_raw.txt is   *)
(* [text, cut]: its text, and what cleaning and tagging its title gives    *)
(* when tokenize is called for it: the tagged pairs, or an exception       *)
(* raised by the tagger. stopwords.txt is not part of the repository, and  *)
(* load_stopwords returns the empty set for a missing file.                *)
(***************************************************************************)
RawLine(text, pairs) == [text |-> text, raises |-> FALSE, pairs |-> pairs]
RawLineRaising(text) == [text |-> text, raises |-> TRUE, pairs |-> <<>>]

RawLines ==
    { RawLine(<<"1",",">> \o <<"u4e2d","u56fd","u7684","u8db3","u7403">>, << <<<<"u4e2d","u56fd">>, <<"n","s">>>>, <<<<"u7684">>, <<"u","j">>>>, <<<<"u8db3","u7403">>, <<"n">>>> >>),
      RawLine(<<"2",",">> \o <<"u5730","u9707">>, << <<<<"u5730","u9707">>, <<"n">>>> >>),
      RawLine(<<"3",",">> \o <<"u7684">>, << <<<<"u7684">>, <<"u","j">>>> >>),
      RawLineRaising(<<"4",",">> \o <<"u5730","u9707">>),
      RawLine(<<"x",",">> \o <<"u5730","u9707">>, << <<<<"u5730","u9707">>, <<"n">>>> >>),
      RawLine(<<"u5730","u9707">>, << <<<<"u5730","u9707">>, <<"n">>>> >>) }
MaxTitles == 3

\* One iteration of ``for line in lines'' of segment.main: what happens to
\* out_lines. "skip" is a continue, "append" carries the line appended, and
\* "raise" is an exception leaving tokenize (main has no handler for it).
SegmentOne(l) ==
    LET line == strip(l.text)
        parts == split1(line, ",")
        rank_str == strip(parts[1])
        toks == tokenize(l.pairs, TRUE, {})
    IN  IF line = <<>> \/ ~HasChar(line, ",") THEN [do |-> "skip", line |-> <<>>]
        ELSE IF ~SegmentRankOk(rank_str) THEN [do |-> "skip", line |-> <<>>]
        ELSE IF l.raises THEN [do |-> "raise", line |-> <<>>]
        ELSE IF toks = <<>> THEN [do |-> "skip", line |-> <<>>]
        ELSE [do |-> "append", line |-> SegLine(rank_str, toks)]

InitSeg ==
    /\ seg_pc = "start"
    /\ seg_raw \in [exists : BOOLEAN, lines : SeqsUpTo(RawLines, MaxTitles)]
    /\ seg_raw.exists \/ seg_raw.lines = <<>>
    /\ seg_lines = <<>>
    /\ seg_out_lines = <<>>
    /\ seg_OUT = <<>>
    /\ seg_status = "running"
    /\ OthersIdle("segment")

\* main, lines 398-406: exit(1) when news_raw.txt is missing, else read it.
SegmentStart ==
    /\ seg_pc = "start"
    /\ IF seg_raw.exists
       THEN seg_pc' = "loop" /\ seg_lines' = seg_raw.lines /\ seg_status' = seg_status
       ELSE seg_pc' = "done" /\ seg_lines' = seg_lines /\ seg_status' = "exit 1"
    /\ UNCHANGED <<seg_raw, seg_out_lines, seg_OUT, exceptSeg>>

\* main, lines 408-423: one line. An exception leaving tokenize ends the
\* process with a traceback before anything is written.
SegmentLine ==
    /\ seg_pc = "loop" /\ seg_lines # <<>>
    /\ LET r == SegmentOne(Head(seg_lines))
       IN  /\ seg_out_lines' = IF r.do = "append" THEN Append(seg_out_lines, r.line)
                               ELSE seg_out_lines
           /\ seg_pc' = IF r.do = "raise" THEN "done" ELSE seg_pc
           /\ seg_status' = IF r.do = "raise" THEN "exception" ELSE seg_status
    /\ seg_lines' = Tail(seg_lines)
    /\ UNCHANGED <<seg_raw, seg_OUT, exceptSeg>>

\* main, lines 425-430: exit(1) when out_lines is empty, else write the file.
SegmentWrite ==
    /\ seg_pc = "loop" /\ seg_lines = <<>>
    /\ IF seg_out_lines = <<>>
       THEN seg_status' = "exit 1" /\ seg_OUT' = seg_OUT
       ELSE seg_status' = "exit 0" /\ seg_OUT' = seg_out_lines
    /\ seg_pc' = "done"
    /\ UNCHANGED <<seg_raw, seg_lines, seg_out_lines, exceptSeg>>

NextSeg == SegmentStart \/ SegmentLine \/ SegmentWrite

(***************************************************************************)
(* Co-occurrence mapper (cooccurrence_mapper.py)                           *)
(***************************************************************************)
HexDigits == <<"0","1","2","3","4","5","6","7","8","9","a","b","c","d","e","f">>
HexValue(h) == (CHOOSE i \in DOMAIN HexDigits : HexDigits[i] = h) - 1

\* The code point of a character: Python compares strings by code points.
ord(c) ==
    IF Len(c) = 5
    THEN 4096 * HexValue(SubSeq(c, 2, 2)) + 256 * HexValue(SubSeq(c, 3, 3))
         + 16 * HexValue(SubSeq(c, 4, 4)) + HexValue(SubSeq(c, 5, 5))
    ELSE IF IsAsciiDigit(c) THEN 48 + DigitValue(c)
    ELSE IF IsUpperChar(c) THEN 64 + (CHOOSE i \in DOMAIN UpperLetters : UpperLetters[i] = c)
    ELSE IF IsLowerChar(c) THEN 96 + (CHOOSE i \in DOMAIN LowerLetters : LowerLetters[i] = c)
    ELSE IF c = "\t" THEN 9
    ELSE IF c = " " THEN 32
    ELSE IF c = "#" THEN 35
    ELSE IF c = "+" THEN 43
    ELSE IF c = "," THEN 44
    ELSE 45    \* "-"

\* a < b on strings: at the first place where they differ the code point of a
\* is smaller, or a is a proper prefix of b.
RECURSIVE StrLess(_, _)
StrLess(a, b) ==
    IF b = <<>> THEN FALSE
    ELSE IF a = <<>> THEN TRUE
    ELSE IF Head(a) = Head(b) THEN StrLess(Tail(a), Tail(b))
    ELSE ord(Head(a)) < ord(Head(b))

\* The list left in the order it was read.
Unsorted(xs) == xs

\* sorted(xs) on a list of strings
RECURSIVE sorted(_)
sorted(xs) ==
    IF xs = <<>> THEN <<>>
    ELSE LET rest == sorted(Tail(xs))
             below == SelectSeq(rest, LAMBDA y : StrLess(y, Head(xs)))
             above == SelectSeq(rest, LAMBDA y : ~StrLess(y, Head(xs)))
         IN  below \o <<Head(xs)>> \o above

\* itertools.combinations(xs, 2): the pairs (xs[i], xs[j]), i < j, by i then j.
RECURSIVE combinations2(_)
combinations2(xs) ==
    IF Len(xs) < 2 THEN <<>>
    ELSE [j \in 1..(Len(xs) - 1) |-> <<xs[1], xs[j + 1]>>] \o combinations2(Tail(xs))

\* print(f"{pair[0]},{pair[1]}\t1")
PairRecord(pair) == pair[1] \o <<",">> \o pair[2] \o <<"\t", "1">>

\* One iteration of ``for line in sys.stdin'' of cooccurrence_mapper.main: the
\* records written.
CoocMapperLine(raw) ==
    LET line == strip(raw)
        parts == split1(line, ",")
        tokens_str == IF Len(parts) > 1 THEN strip(parts[2]) ELSE <<>>
        valid_tokens == SelectSeq(split(tokens_str), LAMBDA t : Len(t) >= 2)
        pairs == combinations2(sorted(valid_tokens))
    IN  IF line = <<>> \/ ~HasChar(line, ",") THEN <<>>
        ELSE IF tokens_str = <<>> THEN <<>>
        ELSE [i \in 1..Len(pairs) |-> PairRecord(pairs[i])]

RECURSIVE CoocMapperRun(_)
CoocMapperRun(lines) ==
    IF lines = <<>> THEN <<>> ELSE CoocMapperLine(Head(lines)) \o CoocMapperRun(Tail(lines))

\* The lines the mapper is fed: segmented lines of three tokens in every order,
\* with a one-letter token, with a repeated token, with one token, and lines
\* that are not "rank,tokens".
CoWords == {W_china, W_football, W_earthquake}
CoTokenLists ==
    {t \in [1..3 -> CoWords] : \A i, j \in 1..3 : i # j => t[i] # t[j]}
    \cup { <<W_earthquake, <<"a">>, W_football>>, <<W_earthquake, W_earthquake>>,
           <<W_earthquake>> }
CoLines ==
    { SegLine(<<"1">>, t) : t \in CoTokenLists }
    \cup { SegLine(<<"x">>, <<W_earthquake, W_football>>),
           join(<<" ">>, <<W_earthquake, W_football>>),
           <<"2", ",">> }

InitCo ==
    /\ co_input \in SeqsUpTo(CoLines, MaxLines)
    /\ co_stdin = co_input
    /\ co_stdout = <<>>
    /\ OthersIdle("cooccurrence")

\* The mapper reads its next line.
CoocMapLine ==
    /\ co_stdin # <<>>
    /\ co_stdout' = co_stdout \o CoocMapperLine(Head(co_stdin))
    /\ co_stdin' = Tail(co_stdin)
    /\ UNCHANGED <<co_input, exceptCo>>

NextCo == CoocMapLine

(***************************************************************************)
(* Time-bucket mapper (time_dist_mapper.py)                                *)
(***************************************************************************)
\* line.split(",", 2): at most three parts.
split2(w, sep) ==
    IF ~HasChar(w, sep) THEN <<w>>
    ELSE <<split1(w, sep)[1]>> \o split1(split1(w, sep)[2], sep)

\* "%02d" % h for h in 0..99
TwoDigits(h) == <<AsciiDigits[(h \div 10) + 1], AsciiDigits[(h % 10) + 1]>>

\* The hour of the timestamp read as UTC, whatever the machine's time zone.
strftime_H_utc(timestamp, utcoffset) == TwoDigits((timestamp \div 3600) % 24)

\* time.strftime("%H", time.localtime(timestamp)) on a machine whose local time
\* is UTC + utcoffset seconds.
strftime_H(timestamp, utcoffset) == TwoDigits(((timestamp + utcoffset) \div 3600) % 24)

\* print(f"{hour},{word}\t1")
HourRecord(hour, word) == hour \o <<",">> \o word \o <<"\t", "1">>

\* One iteration of ``for line in sys.stdin'' of time_dist_mapper.main: the
\* records written.
TimeMapperLine(raw, utcoffset) ==
    LET line == strip(raw)
        parts == split2(line, ",")
        timestamp == int(strip(parts[1]))
        title == strip(parts[3])
        hour == strftime_H(timestamp.val, utcoffset)
        words == SelectSeq(split(title), LAMBDA word : Len(word) >= 2)
    IN  IF line = <<>> THEN <<>>
        ELSE IF Head(line) = "#" THEN <<>>
        ELSE IF Len(parts) < 3 THEN <<>>
        ELSE IF ~timestamp.ok THEN <<>>
        ELSE [i \in 1..Len(words) |-> HourRecord(hour, words[i])]

\* A line of a history file as fetch_hot.save_hot writes it.
HistoryLine(timestamp, rank_str, title) ==
    timestamp \o <<",">> \o rank_str \o <<",">> \o title

\* Two collection times: 09:00 and 14:00 on a machine at UTC+8 (01:00 and 06:00
\* UTC).
TS_morning == <<"1","7","0","0","0","1","0","0","0","0">>
TS_afternoon == <<"1","7","0","0","0","2","8","0","0","0">>
TmLines ==
    { HistoryLine(TS_morning, <<"1">>, join(<<" ">>, <<W_earthquake, <<"a">>, W_earthquake>>)),
      HistoryLine(TS_morning, <<"2">>, W_football),
      HistoryLine(TS_afternoon, <<"1">>, join(<<" ">>, <<W_china, W_football>>)),
      HistoryLine(TS_afternoon, <<"x">>, W_earthquake),
      HistoryLine(TS_morning, <<"3">>, <<>>),
      HistoryLine(<<"a","b","c">>, <<"1">>, W_earthquake),
      <<"#"," ">> \o W_earthquake,
      SegLine(<<"1">>, <<W_earthquake, W_football>>) }
UtcOffsets == {0, 8 * 3600}

InitTm ==
    /\ tm_input \in SeqsUpTo(TmLines, MaxLines)
    /\ tm_stdin = tm_input
    /\ tm_stdout = <<>>
    /\ tm_utcoffset \in UtcOffsets
    /\ OthersIdle("time_dist")

\* The mapper reads its next line.
TimeMapLine ==
    /\ tm_stdin # <<>>
    /\ tm_stdout' = tm_stdout \o TimeMapperLine(Head(tm_stdin), tm_utcoffset)
    /\ tm_stdin' = Tail(tm_stdin)
    /\ UNCHANGED <<tm_input, tm_utcoffset, exceptTm>>

NextTm == TimeMapLine

(***************************************************************************)
(* Time-bucket consumer (web/app.py parse_time_distribution)               *)
(***************************************************************************)
\* w.split(sep): every part between separators.
RECURSIVE split_all(_, _)
split_all(w, sep) ==
    IF ~HasChar(w, sep) THEN <<w>>
    ELSE <<split1(w, sep)[1]>> \o split_all(split1(w, sep)[2], sep)

\* f"{hour:02d}" for hour in range(24)
Hours == {TwoDigits(hour) : hour \in 0..23}

\* time_dist after the initialization loop
EmptyBuckets == [hour \in Hours |-> [hot_words |-> 0, total_heat |-> 0, keywords |-> <<>>]]

\* One iteration of ``for line in lines'': the line is left out when it has no
\* TAB, when int(count_str) or the unpacking of key.split(",") raises, or when
\* the hour is not a bucket; else it is counted in its hour's bucket.
TdCount(td, line) ==
    LET parts == split1(line, "\t")
        count == int(parts[2])
        fields == split_all(parts[1], ",")
        hour == fields[1]
        word == fields[2]
    IN  IF ~HasChar(line, "\t") THEN td
        ELSE IF ~count.ok THEN td
        ELSE IF Len(fields) # 2 THEN td
        ELSE IF hour \notin DOMAIN td THEN td
        ELSE [td EXCEPT ![hour] =
                 [hot_words |-> @.hot_words + 1,
                  total_heat |-> @.total_heat + count.val,
                  keywords |-> Append(@.keywords, <<word, count.val>>)]]

\* keywords[:10] without the cut.
TopTenUncut(keywords) == keywords

\* keywords[:10]
TopTen(keywords) == SubSeq(keywords, 1, IF Len(keywords) < 10 THEN Len(keywords) ELSE 10)

\* The closing loop: each bucket's keywords sorted by count, descending, and
\* cut to ten.
TdRank(td) ==
    [hour \in DOMAIN td |-> [td[hour] EXCEPT !.keywords = TopTen(SortDesc(@))]]

\* The records time_dist_reducer.py writes: one line per key. The token of the
\* fourth is a title word that holds a comma; the last two are not records.
TdRecordLines ==
    { RecordLine(<<"0","9",",">> \o W_earthquake, <<"2">>),
      RecordLine(<<"0","9",",">> \o W_football, <<"1">>),
      RecordLine(<<"1","4",",">> \o W_earthquake, <<"1">>),
      RecordLine(<<"0","9",",","A",",","B">>, <<"1">>),
      RecordLine(<<"0","9",",">> \o W_china, <<"x">>),
      W_earthquake }

\* Twelve keys of hour 09 with the counts 1..12, not in order of count.
LongFile ==
    [i \in 1..12 |->
        LET count == IF i % 2 = 0 THEN i ELSE 12 - i
        IN  RecordLine(<<"0","9",",","a">> \o <<LowerLetters[i]>>,
                       IF count < 10 THEN <<AsciiDigits[count + 1]>> ELSE TwoDigits(count))]

TdFiles ==
    {f \in SeqsUpTo(TdRecordLines, MaxRecords) : \A i, j \in DOMAIN f : i # j => f[i] # f[j]}
    \cup {LongFile}

InitTd ==
    /\ td_pc = "start"
    /\ td_exists \in BOOLEAN
    /\ td_file \in TdFiles
    /\ td_exists \/ td_file = <<>>
    /\ td_lines = <<>>
    /\ time_dist = <<>>
    /\ td_returned = <<>>
    /\ OthersIdle("parse_time")

\* lines 158-172: return [] when the file is missing, else read its lines and
\* initialize the 24 buckets.
TdOpen ==
    /\ td_pc = "start"
    /\ IF td_exists
       THEN td_pc' = "loop" /\ td_lines' = td_file /\ time_dist' = EmptyBuckets
       ELSE td_pc' = "done" /\ td_lines' = td_lines /\ time_dist' = time_dist
    /\ UNCHANGED <<td_exists, td_file, td_returned, exceptTd>>

\* lines 175-189: one line of the file.
TdLine ==
    /\ td_pc = "loop" /\ td_lines # <<>>
    /\ time_dist' = TdCount(time_dist, Head(td_lines))
    /\ td_lines' = Tail(td_lines)
    /\ UNCHANGED <<td_pc, td_exists, td_file, td_returned, exceptTd>>

\* lines 192-197: sort and cut each bucket's keywords, return time_dist.
TdReturn ==
    /\ td_pc = "loop" /\ td_lines = <<>>
    /\ time_dist' = TdRank(time_dist)
    /\ td_returned' = time_dist'
    /\ td_pc' = "done"
    /\ UNCHANGED <<td_exists, td_file, td_lines, exceptTd>>

NextTd == TdOpen \/ TdLine \/ TdReturn

(***************************************************************************)
(* Frequency consumer (web/app.py parse_top20), with the end of reducer.py *)
(* that writes the file it reads and the statement of index() that         *)
(* unpacks what it returns. A returned tuple or list is a sequence: the    *)
(* pair (data[:20], total_heat) has length 2, the list [] length 0.        *)
(***************************************************************************)
\* "%d" % n
RECURSIVE Decimal(_)
Decimal(n) ==
    IF n < 0 THEN <<"-">> \o Decimal(0 - n)
    ELSE IF n < 10 THEN <<AsciiDigits[n + 1]>>
    ELSE Decimal(n \div 10) \o <<AsciiDigits[(n % 10) + 1]>>

\* reducer.py, lines 65-68: the lines written for aggregated.
ReducerOutput(agg) ==
    IF agg = <<>> THEN <<>>
    ELSE [i \in 1..Len(deduplicate_by_inclusion(agg)) |->
             RecordLine(deduplicate_by_inclusion(agg)[i][1],
                        Decimal(deduplicate_by_inclusion(agg)[i][2]))]

\* One iteration of ``for line in lines'' of parse_top20: the line is left
\* out when it has no TAB or when int(c) raises.
TopCount(st, line) ==
    LET parts == split1(line, "\t")
        c == int(parts[2])
    IN  IF ~HasChar(line, "\t") THEN st
        ELSE IF ~c.ok THEN st
        ELSE [data |-> Append(st.data, <<parts[1], c.val>>),
              total_heat |-> st.total_heat + c.val]

\* data[:20] without the cut.
TopAll(data) == data

\* data[:20]
TopTwenty(data) == SubSeq(data, 1, IF Len(data) < 20 THEN Len(data) ELSE 20)

\* data.sort(key=lambda x: x["count"], reverse=True)
TopSort(data) == SortDesc(data)

\* Lines of a top20.txt: records, a line without TAB, a count that is no
\* integer.
TopRecordLines ==
    { RecordLine(W_statement, <<"5">>), RecordLine(W_football, <<"5","0">>),
      RecordLine(W_earthquake, <<"7">>), RecordLine(W_china, <<"x">>), W_earthquake }

\* Twenty-two keys with the counts 1..22, not in order of count.
LongTop ==
    [i \in 1..22 |->
        RecordLine(<<"a", LowerLetters[i]>>, Decimal(IF i % 2 = 0 THEN i ELSE 22 - i))]

TopFiles ==
    {f \in SeqsUpTo(TopRecordLines, MaxRecords) : \A i, j \in DOMAIN f : i # j => f[i] # f[j]}
    \cup {LongTop}

\* The aggregated lists reducer.py ends with: a few words, and twenty-two
\* words none of which holds another.
LongAggregate == [i \in 1..22 |-> <<<<"a", LowerLetters[i]>>, IF i % 2 = 0 THEN i ELSE 22 - i>>]
TopAggregates ==
    {wc \in SeqsUpTo({<<W_china, 10>>, <<W_football, 90>>, <<W_cnfootball, 63>>,
                      <<W_earthquake, 7>>}, MaxWords) : DistinctWords(wc)}
    \cup {LongAggregate}

\* Either the reducer is about to write top20.txt, or the call finds a file
\* (or none) that is already there.
InitTop ==
    /\ t20_pc \in {"reduce", "start"}
    /\ t20_exists \in BOOLEAN
    /\ t20_file \in TopFiles
    /\ t20_data \in TopAggregates
    /\ t20_pc = "reduce" => ~t20_exists /\ t20_file = <<>>
    /\ t20_pc = "start" => t20_data = <<>> /\ (t20_exists \/ t20_file = <<>>)
    /\ t20_lines = <<>>
    /\ t20_total_heat = 0
    /\ t20_returned = <<>>
    /\ t20_caller = "waiting"
    /\ OthersIdle("parse_top20")

\* reducer.py, lines 65-68: the deduplicated list is written, one record per
\* line; the job's output is then fetched as top20.txt.
TopReducerWrite ==
    /\ t20_pc = "reduce"
    /\ t20_file' = ReducerOutput(t20_data)
    /\ t20_exists' = TRUE
    /\ t20_data' = <<>>
    /\ t20_pc' = "start"
    /\ UNCHANGED <<t20_lines, t20_total_heat, t20_returned, t20_caller, exceptTop>>

\* parse_top20, lines 95-102: return [] when the file is missing, else read
\* its lines.
TopOpen ==
    /\ t20_pc = "start"
    /\ IF t20_exists
       THEN t20_pc' = "loop" /\ t20_lines' = t20_file
       ELSE t20_pc' = "returned" /\ t20_lines' = t20_lines
    /\ t20_data' = <<>>
    /\ t20_total_heat' = 0
    /\ t20_returned' = <<>>
    /\ UNCHANGED <<t20_exists, t20_file, t20_caller, exceptTop>>

\* lines 103-112: one line of the file.
TopLine ==
    /\ t20_pc = "loop" /\ t20_lines # <<>>
    /\ LET st == TopCount([data |-> t20_data, total_heat |-> t20_total_heat], Head(t20_lines))
       IN  t20_data' = st.data /\ t20_total_heat' = st.total_heat
    /\ t20_lines' = Tail(t20_lines)
    /\ UNCHANGED <<t20_pc, t20_exists, t20_file, t20_returned, t20_caller, exceptTop>>

\* lines 113-115: data.sort(...); return data[:20], total_heat
TopReturn ==
    /\ t20_pc = "loop" /\ t20_lines = <<>>
    /\ t20_data' = TopSort(t20_data)
    /\ t20_returned' = <<TopTwenty(t20_data'), t20_total_heat>>
    /\ t20_pc' = "returned"
    /\ UNCHANGED <<t20_exists, t20_file, t20_lines, t20_total_heat, t20_caller, exceptTop>>

\* index(), line 471: top20, total_heat = parse_top20(TOP20_FILE). Unpacking
\* anything but two elements raises ValueError.
TopUnpack ==
    /\ t20_pc = "returned"
    /\ t20_caller' = IF Len(t20_returned) = 2 THEN "unpacked" ELSE "ValueError"
    /\ t20_pc' = "done"
    /\ UNCHANGED <<t20_exists, t20_file, t20_lines, t20_data, t20_total_heat, t20_returned,
                   exceptTop>>

NextTop == TopReducerWrite \/ TopOpen \/ TopLine \/ TopReturn \/ TopUnpack

(***************************************************************************)
(* The consumer parsers of web/app.py, either one called on its file       *)
(***************************************************************************)
InitWeb == InitTop \/ InitTd

NextWeb ==
    \/ TopReducerWrite \/ TopOpen \/ TopLine \/ TopReturn \/ TopUnpack
    \/ TdOpen \/ TdLine \/ TdReturn

(***************************************************************************)
(* Refresh (web/app.py api_refresh): the twelve steps of POST /api/refresh *)
(* with the programs they run. What a command outside the repository does *)
(* (docker, hdfs, hadoop, the network of fetch_hot.py) is an input: it     *)
(* succeeds or fails. An entry of logs is [step, msg]: the step during     *)
(* which it was appended and what it says.                                 *)
(***************************************************************************)
LogEntry(n, msg) == [step |-> n, msg |-> msg]

\* The titles fetch_hot.py may find, each with what the tagger gives for it:
\* 中国的足球, 地震, 的 (no admissible token).
RefreshTitles ==
    { [text |-> <<"u4e2d","u56fd","u7684","u8db3","u7403">>, pairs |-> << <<<<"u4e2d","u56fd">>, <<"n","s">>>>, <<<<"u7684">>, <<"u","j">>>>, <<<<"u8db3","u7403">>, <<"n">>>> >>],
      [text |-> <<"u5730","u9707">>, pairs |-> << <<<<"u5730","u9707">>, <<"n">>>> >>],
      [text |-> <<"u7684">>, pairs |-> << <<<<"u7684">>, <<"u","j">>>> >>] }

\* fetch_hot.save_hot, news_raw.txt: f"{i},{title}\n" for i, title in
\* enumerate(titles, 1)
save_hot(titles) ==
    [i \in 1..Len(titles) |-> RawLine(Decimal(i) \o <<",">> \o titles[i].text, titles[i].pairs)]

\* fetch_hot.main exits 1 when no title was found
RefreshSnapshots == { save_hot(titles) : titles \in SeqsUpTo(RefreshTitles, MaxTitles) \ {<<>>} }

\* segment.main on the lines of news_raw.txt: out_lines after the loop
RECURSIVE SegmentOut(_)
SegmentOut(lines) ==
    IF lines = <<>> THEN <<>>
    ELSE (IF SegmentOne(Head(lines)).do = "append" THEN <<SegmentOne(Head(lines)).line>> ELSE <<>>)
         \o SegmentOut(Tail(lines))

\* segment.main: how the process ends
SegmentExit(raw) ==
    IF ~raw.exists THEN "exit 1"
    ELSE IF \E i \in DOMAIN raw.lines : SegmentOne(raw.lines[i]).do = "raise" THEN "exception"
    ELSE IF SegmentOut(raw.lines) = <<>> THEN "exit 1"
    ELSE "exit 0"

\* time_dist_mapper.main over the lines of its input
RECURSIVE TimeMapperRun(_, _)
TimeMapperRun(lines, utcoffset) ==
    IF lines = <<>> THEN <<>>
    ELSE TimeMapperLine(Head(lines), utcoffset) \o TimeMapperRun(Tail(lines), utcoffset)

\* time_dist_reducer.main over the sorted records, entered with the
\* accumulator (has, key, count): the pairs printed
RECURSIVE TimeReducerRun(_, _, _, _)
TimeReducerRun(lines, has, key, count) ==
    IF lines = <<>> THEN (IF has THEN << <<key, count>> >> ELSE <<>>)
    ELSE LET rec == TimeReducerParse(Head(lines))
         IN  IF ~rec.ok THEN TimeReducerRun(Tail(lines), has, key, count)
             ELSE IF has /\ key = rec.key
             THEN TimeReducerRun(Tail(lines), has, key, count + rec.count)
             ELSE (IF has THEN << <<key, count>> >> ELSE <<>>)
                  \o TimeReducerRun(Tail(lines), TRUE, rec.key, rec.count)

\* The streaming job of step 12 on an input file, with one reducer: the
\* mapper's records sorted, reduced and written one per line.
TimeDistJob(input, utcoffset) ==
    ReducerOutput(TimeReducerRun(sorted(TimeMapperRun(input, utcoffset)), FALSE, <<>>, 0))

\* parse_time_distribution(path): [] for a missing file, else the 24 buckets
RECURSIVE TdCountAll(_, _)
TdCountAll(td, lines) ==
    IF lines = <<>> THEN td ELSE TdCountAll(TdCount(td, Head(lines)), Tail(lines))

parse_time_distribution(file) ==
    IF ~file.exists THEN <<>> ELSE TdRank(TdCountAll(EmptyBuckets, file.lines))

NoFile == [exists |-> FALSE, lines |-> <<>>]
File(lines) == [exists |-> TRUE, lines |-> lines]

InitRefresh ==
    /\ rf_pc = "step1"
    /\ rf_step = 0
    /\ rf_logs = <<LogEntry(0, "start")>>
    /\ rf_LOG_FILE = <<>>
    /\ rf_response = [ok |-> FALSE, step |-> 0, status |-> 0, time_distribution |-> <<>>]
    /\ rf_news_raw = NoFile
    /\ rf_news_seg = NoFile
    /\ rf_input = NoFile
    /\ rf_local \in [top20 : BOOLEAN, cooccurrence : BOOLEAN]
    /\ rf_time_dist_txt = NoFile
    /\ rf_utcoffset \in UtcOffsets
    /\ OthersIdle("api_refresh")

\* A failed check without the dump_logs(logs) before the return.
RefreshFailUnlogged(n, entries) ==
    /\ rf_step' = n
    /\ rf_logs' = rf_logs \o entries
    /\ rf_LOG_FILE' = rf_LOG_FILE
    /\ rf_response' = [ok |-> FALSE, step |-> n, status |-> 500, time_distribution |-> <<>>]
    /\ rf_pc' = "done"

\* A failed check of step n: dump_logs(logs); return jsonify({"ok": False,
\* ..., "step": step, ...}), 500
RefreshFail(n, entries) ==
    /\ rf_step' = n
    /\ rf_logs' = rf_logs \o entries
    /\ rf_LOG_FILE' = rf_logs'
    /\ rf_response' = [ok |-> FALSE, step |-> n, status |-> 500, time_distribution |-> <<>>]
    /\ rf_pc' = "done"

\* Step n passed: the handler goes on to the next step.
RefreshPass(n, entries, next) ==
    /\ rf_step' = n
    /\ rf_logs' = rf_logs \o entries
    /\ rf_pc' = next
    /\ UNCHANGED <<rf_LOG_FILE, rf_response>>

\* A step whose only effect is its check: step = n, the header and the
\* command's output are logged, a failure returns.
RefreshCheck(n, ok, next) ==
    IF ok THEN RefreshPass(n, <<LogEntry(n, "begin"), LogEntry(n, "ok")>>, next)
    ELSE RefreshFail(n, <<LogEntry(n, "begin"), LogEntry(n, "failed")>>)

\* save_to_hdfs after steps 4 and 10: either outcome is logged
Archived(n, saved) == LogEntry(n, IF saved THEN "archived" ELSE "archive failed")

\* step 1: check_docker_container
RefreshStep1 ==
    /\ rf_pc = "step1"
    /\ \E docker_ok \in BOOLEAN : RefreshCheck(1, docker_ok, "step2")
    /\ UNCHANGED <<rf_news_raw, rf_news_seg, rf_input, rf_local, rf_time_dist_txt, rf_utcoffset,
                   exceptRf>>

\* step 2: check_hadoop_service
RefreshStep2 ==
    /\ rf_pc = "step2"
    /\ \E hadoop_ok \in BOOLEAN : RefreshCheck(2, hadoop_ok, "step3")
    /\ UNCHANGED <<rf_news_raw, rf_news_seg, rf_input, rf_local, rf_time_dist_txt, rf_utcoffset,
                   exceptRf>>

\* step 3: ensure_container_tmp
RefreshStep3 ==
    /\ rf_pc = "step3"
    /\ \E ok \in BOOLEAN : RefreshCheck(3, ok, "step4")
    /\ UNCHANGED <<rf_news_raw, rf_news_seg, rf_input, rf_local, rf_time_dist_txt, rf_utcoffset,
                   exceptRf>>

\* step 4: fetch_hot.py writes news_raw.txt or exits 1; then the raw file is
\* archived, whose outcome is only logged.
RefreshStep4 ==
    /\ rf_pc = "step4"
    /\ \/ /\ RefreshFail(4, <<LogEntry(4, "begin"), LogEntry(4, "failed")>>)
          /\ UNCHANGED rf_news_raw
       \/ \E snapshot \in RefreshSnapshots, saved \in BOOLEAN :
             /\ rf_news_raw' = File(snapshot)
             /\ RefreshPass(4, <<LogEntry(4, "begin"), LogEntry(4, "ok"), Archived(4, saved)>>,
                            "step5")
    /\ UNCHANGED <<rf_news_seg, rf_input, rf_local, rf_time_dist_txt, rf_utcoffset, exceptRf>>

\* step 5: segment.py; rc is 0 only when it wrote news_seg.txt (timeout is
\* run_cmd's timeout or another failure to run it).
RefreshStep5 ==
    /\ rf_pc = "step5"
    /\ \E timeout \in BOOLEAN :
          IF ~timeout /\ SegmentExit(rf_news_raw) = "exit 0"
          THEN /\ rf_news_seg' = File(SegmentOut(rf_news_raw.lines))
               /\ RefreshPass(5, <<LogEntry(5, "begin"), LogEntry(5, "ok")>>, "step6")
          ELSE /\ rf_news_seg' = rf_news_seg
               /\ RefreshFail(5, <<LogEntry(5, "begin"), LogEntry(5, "failed")>>)
    /\ UNCHANGED <<rf_news_raw, rf_input, rf_local, rf_time_dist_txt, rf_utcoffset, exceptRf>>

\* step 6: the configured command, python3, python: the step fails when none
\* of the three answers (found = 0), and only then logs before returning.
RefreshStep6 ==
    /\ rf_pc = "step6"
    /\ \E found \in 0..3 :
          IF found # 0
          THEN RefreshPass(6, <<LogEntry(6, "begin"), LogEntry(6, "ok")>>, "step7")
          ELSE RefreshFail(6, <<LogEntry(6, "begin"), LogEntry(6, "failed")>>)
    /\ UNCHANGED <<rf_news_raw, rf_news_seg, rf_input, rf_local, rf_time_dist_txt, rf_utcoffset,
                   exceptRf>>

\* step 7: mapper.py, reducer.py, news_seg.txt are copied in turn; copied is
\* how many docker cp succeeded. A missing news_seg.txt fails the step too.
RefreshStep7 ==
    /\ rf_pc = "step7"
    /\ \E copied \in 0..3 :
          IF copied = 3 /\ rf_news_seg.exists
          THEN RefreshPass(7, <<LogEntry(7, "begin")>> \o [i \in 1..3 |-> LogEntry(7, "ok")],
                           "step8")
          ELSE /\ copied < 3
               /\ RefreshFail(7, <<LogEntry(7, "begin")>> \o [i \in 1..copied |-> LogEntry(7, "ok")]
                                 \o <<LogEntry(7, "failed")>>)
    /\ UNCHANGED <<rf_news_raw, rf_news_seg, rf_input, rf_local, rf_time_dist_txt, rf_utcoffset,
                   exceptRf>>

\* step 8: -rm and -mkdir are run unchecked, -put -f /news_seg.txt /input/ is
\* checked.
RefreshStep8 ==
    /\ rf_pc = "step8"
    /\ \E put_ok \in BOOLEAN :
          /\ rf_input' = IF put_ok THEN rf_news_seg ELSE rf_input
          /\ RefreshCheck(8, put_ok, "step9")
    /\ UNCHANGED <<rf_news_raw, rf_news_seg, rf_local, rf_time_dist_txt, rf_utcoffset, exceptRf>>

\* step 9: the streaming job of mapper.py and reducer.py
RefreshStep9 ==
    /\ rf_pc = "step9"
    /\ \E ok \in BOOLEAN : RefreshCheck(9, ok, "step10")
    /\ UNCHANGED <<rf_news_raw, rf_news_seg, rf_input, rf_local, rf_time_dist_txt, rf_utcoffset,
                   exceptRf>>

\* step 10: -getmerge, then docker cp of top20.txt, both checked; then the
\* result is archived, whose outcome is only logged.
RefreshStep10 ==
    /\ rf_pc = "step10"
    /\ \E merge_ok, cp_ok, saved \in BOOLEAN :
          IF ~merge_ok
          THEN /\ RefreshFail(10, <<LogEntry(10, "begin"), LogEntry(10, "failed")>>)
               /\ UNCHANGED rf_local
          ELSE IF ~cp_ok
          THEN /\ RefreshFail(10, <<LogEntry(10, "begin"), LogEntry(10, "ok"),
                                    LogEntry(10, "failed")>>)
               /\ UNCHANGED rf_local
          ELSE /\ RefreshPass(10, <<LogEntry(10, "begin"), LogEntry(10, "ok"), LogEntry(10, "ok"),
                                    Archived(10, saved)>>, "step11")
               /\ rf_local' = [rf_local EXCEPT !.top20 = TRUE]
    /\ UNCHANGED <<rf_news_raw, rf_news_seg, rf_input, rf_time_dist_txt, rf_utcoffset, exceptRf>>

\* step 11: the co-occurrence job and the retrieval of cooccurrence.txt, no
\* return code checked; the file is archived when it exists, and only a
\* successful archive is logged.
RefreshStep11 ==
    /\ rf_pc = "step11"
    /\ \E job_ok, cp_ok, saved \in BOOLEAN :
          /\ rf_local' = [rf_local EXCEPT !.cooccurrence = @ \/ cp_ok]
          /\ RefreshPass(11, <<LogEntry(11, "begin"),
                               LogEntry(11, IF job_ok THEN "job ok" ELSE "job failed")>>
                             \o (IF rf_local'.cooccurrence /\ saved
                                 THEN <<LogEntry(11, "archived")>> ELSE <<>>),
                         "step12")
    /\ UNCHANGED <<rf_news_raw, rf_news_seg, rf_input, rf_time_dist_txt, rf_utcoffset, exceptRf>>

\* step 12: the time-bucket job on /input/news_seg.txt and the retrieval of
\* time_dist.txt, no return code checked; then the closing entry and
\* dump_logs.
RefreshStep12 ==
    /\ rf_pc = "step12"
    /\ \E job_ok, cp_ok, saved \in BOOLEAN :
          /\ rf_time_dist_txt' =
                IF job_ok /\ cp_ok THEN File(TimeDistJob(rf_input.lines, rf_utcoffset))
                ELSE rf_time_dist_txt
          /\ rf_step' = 12
          /\ rf_logs' = rf_logs
                 \o <<LogEntry(12, "begin"), LogEntry(12, IF job_ok THEN "job ok" ELSE "job failed")>>
                 \o (IF rf_time_dist_txt'.exists /\ saved THEN <<LogEntry(12, "archived")>> ELSE <<>>)
                 \o <<LogEntry(12, "complete")>>
          /\ rf_LOG_FILE' = rf_logs'
    /\ rf_pc' = "parse"
    /\ UNCHANGED <<rf_response, rf_news_raw, rf_news_seg, rf_input, rf_local, rf_utcoffset,
                   exceptRf>>

\* lines 979-1013: the results are parsed and returned with ok = True; the
\* unpacking of parse_top20's result raises when top20.txt is missing, and
\* the handler's except clause logs and returns the error.
RefreshReturn ==
    /\ rf_pc = "parse"
    /\ IF rf_local.top20
       THEN /\ rf_response' = [ok |-> TRUE, step |-> rf_step, status |-> 200,
                               time_distribution |-> parse_time_distribution(rf_time_dist_txt)]
            /\ UNCHANGED <<rf_logs, rf_LOG_FILE>>
       ELSE /\ rf_logs' = Append(rf_logs, LogEntry(rf_step, "exception"))
            /\ rf_LOG_FILE' = rf_logs'
            /\ rf_response' = [ok |-> FALSE, step |-> rf_step, status |-> 500,
                               time_distribution |-> <<>>]
    /\ rf_pc' = "done"
    /\ UNCHANGED <<rf_step, rf_news_raw, rf_news_seg, rf_input, rf_local, rf_time_dist_txt,
                   rf_utcoffset, exceptRf>>

NextRefresh ==
    \/ RefreshStep1 \/ RefreshStep2 \/ RefreshStep3 \/ RefreshStep4 \/ RefreshStep5
    \/ RefreshStep6 \/ RefreshStep7 \/ RefreshStep8 \/ RefreshStep9 \/ RefreshStep10
    \/ RefreshStep11 \/ RefreshStep12 \/ RefreshReturn

(***************************************************************************)
(* Specifications: one per program of the pipeline                         *)
(***************************************************************************)
SpecNorm == InitNorm /\ [][NextNorm]_vars
SpecMap == InitMap /\ [][NextMap]_vars
SpecDedup == InitDedup /\ [][NextDedup]_vars
SpecMerge == InitMerge /\ [][NextMerge]_vars
SpecReduce == InitReduce /\ [][NextReduce]_vars
SpecTok == InitTok /\ [][NextTok]_vars
SpecSeg == InitSeg /\ [][NextSeg]_vars
SpecCo == InitCo /\ [][NextCo]_vars
SpecTm == InitTm /\ [][NextTm]_vars
SpecTd == InitTd /\ [][NextTd]_vars
SpecTop == InitTop /\ [][NextTop]_vars
SpecWeb == InitWeb /\ [][NextWeb]_vars
SpecRefresh == InitRefresh /\ [][NextRefresh]_vars

\* Any one of the programs, run on its own.
Init ==
    \/ InitNorm \/ InitMap \/ InitDedup \/ InitMerge \/ InitReduce
    \/ InitTok \/ InitSeg \/ InitCo \/ InitTm \/ InitTd \/ InitTop
    \/ InitRefresh
Next ==
    \/ NextNorm \/ NextMap \/ NextDedup \/ NextMerge \/ NextReduce
    \/ NextTok \/ NextSeg \/ NextCo \/ NextTm \/ NextTd \/ NextTop
    \/ NextRefresh
Spec == Init /\ [][Next]_vars

(***************************************************************************)
(* Properties of the frequency mapper                                      *)
(***************************************************************************)
BagOfSeq(s) == [e \in Range(s) |-> Cardinality({i \in DOMAIN s : s[i] = e})]

\* Everything the mapper instances have written, instance after instance.
RECURSIVE OutUpTo(_)
OutUpTo(m) == IF m = 0 THEN <<>> ELSE OutUpTo(m - 1) \o stdout[m]
AllOut == OutUpTo(NumMappers)

\* The fields of a segmented line "rank,tokens".
LineRank(raw) == int(strip(split1(strip(raw), ",")[1]))
LineTokens(raw) == split(split1(strip(raw), ",")[2])
WellFormed(raw) ==
    /\ HasChar(strip(raw), ",")
    /\ LineRank(raw).ok
    /\ LineTokens(raw) # <<>>

\* The records a title owes: one per distinct normalized key of length >= 2,
\* each carrying the title's own weight max(1, 51 - rank).
TitleKeys(raw) ==
    {k \in {normalize_word_mapper(t) : t \in Range(LineTokens(raw))} : Len(k) >= 2}
TitleWeight(raw) ==
    IF 51 - LineRank(raw).val >= 1 THEN 51 - LineRank(raw).val ELSE 1
TitleRecords(raw) == {[key |-> k, weight |-> TitleWeight(raw)] : k \in TitleKeys(raw)}
ExpectedBag(f) ==
    LET titles == {i \in DOMAIN f : WellFormed(f[i])}
        recs == UNION {TitleRecords(f[i]) : i \in titles}
    IN  [r \in recs |-> Cardinality({i \in titles : r \in TitleRecords(f[i])})]

\* C1: when the mappers have read all their input, the records written are
\* exactly one (key, weight) per pair (title, distinct normalized key of length
\* >= 2 in that title), with the title's weight: a key of k titles appears k
\* times.
C1_OneRecordPerTitleAndKey ==
    MapDone => BagOfSeq(AllOut) = ExpectedBag(news_seg)

PermutationsOf(f) ==
    {[i \in 1..Len(f) |-> f[p[i]]] : p \in Permutations(1..Len(f))}

\* C2: the multiset of records written by the instances over their shards is
\* the multiset one instance writes over the whole file, in any order of the
\* lines.
C2_ShardAndOrderIndependent ==
    MapDone =>
        \A g \in PermutationsOf(news_seg) :
            BagOfSeq(AllOut) = BagOfSeq(MapperRun(FreshLocals, g))

\* C3: the weight computed for rank r is max(1, 51 - r): never below 1,
\* non-increasing in r, 50 for rank 1, 1 for ranks 50 and 60.
C3_WeightIsFlooredDescent ==
    \A m \in Mappers :
        bound[m] =>
            /\ weight[m] = (IF 51 - rank[m] > 1 THEN 51 - rank[m] ELSE 1)
            /\ weight[m] >= 1
            /\ (rank[m] = 1 => weight[m] = 50)
            /\ (rank[m] = 50 => weight[m] = 1)
            /\ (rank[m] = 60 => weight[m] = 1)
            /\ \A n \in Mappers :
                   (bound[n] /\ rank[m] <= rank[n]) => weight[m] >= weight[n]

\* Two instances have computed the weights of ranks 1 and 60.
C3_Witness ==
    \E m, n \in Mappers :
        /\ bound[m] /\ rank[m] = 1 /\ weight[m] = 50
        /\ bound[n] /\ rank[n] = 60 /\ weight[n] = 1

\* C4: every weight written lies in 1..50.
C4_WeightWithin1To50 ==
    \A m \in Mappers : \A i \in DOMAIN stdout[m] : stdout[m][i].weight \in 1..50

(***************************************************************************)
(* Properties of the inclusion dedup and of the semantic merge             *)
(***************************************************************************)
\* C6: the decision taken for a candidate (w, c) against the accepted list:
\* a substring of an accepted word is dropped and changes nothing; otherwise,
\* for each accepted word contained in w with count a, w replaces it when
\* c > 0.7 * a (compared as the program compares, in double arithmetic) and is
\* dropped when not. The three worked inputs give their stated results.
C6_DecisionRule ==
    [][ /\ (dd_pc = "walk" /\ sorted_words # <<>>) =>
            LET w == Head(sorted_words)[1]
                c == Head(sorted_words)[2]
            IN  IF \E i \in DOMAIN result : IsSubstring(w, result[i][1])
                THEN result' = result
                ELSE \A i \in DOMAIN result :
                        IsSubstring(result[i][1], w) =>
                            IF ExceedsThreshold(c, result[i][2])
                            THEN /\ result[i] \notin Range(result')
                                 /\ <<w, c>> \in Range(result')
                            ELSE /\ result[i] \in Range(result')
                                 /\ <<w, c>> \notin Range(result')
        /\ (dd_pc' = "returned" /\ words_with_counts = <<<<W_ai, 100>>, <<W_smart, 95>>>>)
               => result' = <<<<W_ai, 100>>>>
        /\ (dd_pc' = "returned" /\ words_with_counts = <<<<W_football, 10>>, <<W_cnfootball, 8>>>>)
               => result' = <<<<W_cnfootball, 8>>>>
        /\ (dd_pc' = "returned" /\ words_with_counts = <<<<W_football, 10>>, <<W_cnfootball, 5>>>>)
               => result' = <<<<W_football, 10>>>>
      ]_vars

\* The semantic group of a word, read off the table: the label of the group
\* that lists it (as label or variant), the word itself when none does.
InGroup(g, w) == w = g[1] \/ w \in Range(g[2])
GroupLabel(w) ==
    IF \E i \in DOMAIN SEGMENT_SEMANTIC_GROUPS : InGroup(SEGMENT_SEMANTIC_GROUPS[i], w)
    THEN SEGMENT_SEMANTIC_GROUPS[
             CHOOSE i \in DOMAIN SEGMENT_SEMANTIC_GROUPS :
                 InGroup(SEGMENT_SEMANTIC_GROUPS[i], w)][1]
    ELSE w

RECURSIVE SumCounts(_)
SumCounts(wc) == IF wc = <<>> THEN 0 ELSE Head(wc)[2] + SumCounts(Tail(wc))
RECURSIVE SumLabel(_, _)
SumLabel(wc, label) ==
    IF wc = <<>> THEN 0
    ELSE (IF GroupLabel(Head(wc)[1]) = label THEN Head(wc)[2] ELSE 0)
         + SumLabel(Tail(wc), label)

\* C7: the merge returns one entry per canonical label of the input words,
\* holding the sum of the counts of the words of that label; the total is
\* preserved and the entries are in descending count order; the three
\* variants with counts 5, 3, 2 merge into one entry of count 10.
C7_MergeSumsPerLabel ==
    mg_pc = "returned" =>
        /\ {merged[i][1] : i \in DOMAIN merged}
               = {GroupLabel(mg_words[i][1]) : i \in DOMAIN mg_words}
        /\ \A i, j \in DOMAIN merged : i # j => merged[i][1] # merged[j][1]
        /\ \A i \in DOMAIN merged : merged[i][2] = SumLabel(mg_words, merged[i][1])
        /\ SumCounts(merged) = SumCounts(mg_words)
        /\ \A i, j \in DOMAIN merged : i < j => merged[i][2] >= merged[j][2]
        /\ (mg_words = <<<<W_respond, 5>>, <<W_speakout, 3>>, <<W_stance, 2>>>>
                => merged = <<<<W_speakout, 10>>>>)

C7_Witness ==
    /\ mg_pc = "returned"
    /\ mg_words = <<<<W_respond, 5>>, <<W_speakout, 3>>, <<W_stance, 2>>>>
    /\ merged = <<<<W_speakout, 10>>>>

(***************************************************************************)
(* Properties of the streaming reducers                                    *)
(***************************************************************************)
ParseFor(j, raw) ==
    IF j = "freq" THEN ReducerParse(raw)
    ELSE IF j = "cooc" THEN CoocReducerParse(raw)
    ELSE TimeReducerParse(raw)

\* The well-formed records of the input, in order.
RECURSIVE Received(_, _)
Received(j, lines) ==
    IF lines = <<>> THEN <<>>
    ELSE (IF ParseFor(j, Head(lines)).ok THEN <<ParseFor(j, Head(lines))>> ELSE <<>>)
         \o Received(j, Tail(lines))

\* All records of a key arrive contiguously.
Contiguous(recs) ==
    \A i, k \in DOMAIN recs :
        (i < k /\ recs[i].key = recs[k].key) =>
            \A m \in i..k : recs[m].key = recs[i].key

RECURSIVE SumKey(_, _)
SumKey(recs, key) ==
    IF recs = <<>> THEN 0
    ELSE (IF Head(recs).key = key THEN Head(recs).count ELSE 0) + SumKey(Tail(recs), key)

\* What the reducer that runs has produced: reducer.py collects its aggregates
\* in a list, the other two print them.
Produced == IF job = "freq" THEN aggregated ELSE red_stdout

\* C5: at end of input, when the records of each key arrived contiguously, the
\* reducer has produced exactly one aggregate per distinct key, with the sum
\* of the values received for it, the last group included; no key appears
\* twice.
C5_OneSumPerKey ==
    LET recs == Received(job, red_input)
    IN  (red_pc = "done" /\ Contiguous(recs)) =>
            /\ {Produced[i][1] : i \in DOMAIN Produced} = {recs[i].key : i \in DOMAIN recs}
            /\ \A i, k \in DOMAIN Produced : i # k => Produced[i][1] # Produced[k][1]
            /\ \A i \in DOMAIN Produced : Produced[i][2] = SumKey(recs, Produced[i][1])

\* Two key groups, the second of two records, reduced to two aggregates.
C5_Witness ==
    LET recs == Received(job, red_input)
    IN  /\ red_pc = "done"
        /\ Len(recs) = 3
        /\ recs[1].key # recs[2].key /\ recs[2].key = recs[3].key
        /\ Len(Produced) = 2
        /\ Produced[2] = <<recs[3].key, recs[2].count + recs[3].count>>

\* C8: the list reducer.py writes is the semantic merge of the
\* inclusion-deduplicated aggregate counts.
C8_ReduceDedupMerge ==
    (job = "freq" /\ red_pc = "done") =>
        red_stdout = merge_semantic_duplicates(deduplicate_by_inclusion(aggregated))

(***************************************************************************)
(* Properties of the normalizers                                           *)
(***************************************************************************)
\* C9: normalizing a table word twice gives what normalizing it once gives,
\* for normalize_word and for both normalize_semantic.
C9_NormalizeIdempotent ==
    norm_pc = "twice" =>
        /\ norm_twice.word = norm_once.word
        /\ norm_twice.seg = norm_once.seg
        /\ norm_twice.map = norm_once.map

\* "grammy" is upper-cased by normalize_word and mapped to its group's label
\* 格莱美 by normalize_semantic; a second pass changes neither.
C9_Witness ==
    /\ norm_pc = "twice"
    /\ norm_word = <<"g","r","a","m","m","y">>
    /\ norm_once.word = <<"G","R","A","M","M","Y">>
    /\ norm_once.seg = <<"u683c","u83b1","u7f8e">>
    /\ norm_twice = norm_once

\* C10: the canonicalizer of mapper.py and the one of segment.py return the
\* same canonical key for every word.
C10_SameCanonicalKey ==
    norm_pc \in {"once", "twice"} => norm_once.map = norm_once.seg

\* The semantic groups (of the table the frequency mapper reads) that list the
\* surface form w in some letter case, as label or as variant.
ListedIn(i, w) ==
    \E v \in Range(MAPPER_SEMANTIC_GROUPS[i][2]) \cup {MAPPER_SEMANTIC_GROUPS[i][1]} :
        lower(v) = lower(strip(w))

\* C11: a surface form that a semantic group lists as a variant, written in
\* any letter case, is counted under the group's canonical label after
\* normalize_word followed by normalize_word_mapper; the ASCII variants too.
C11_VariantReachesLabel ==
    norm_pc \in {"once", "twice"} =>
        \A i \in DOMAIN MAPPER_SEMANTIC_GROUPS :
            ListedIn(i, norm_word) => norm_once.pipe = MAPPER_SEMANTIC_GROUPS[i][1]

(***************************************************************************)
(* Properties of the title pipeline                                        *)
(***************************************************************************)
\* C12: every token tokenize returns, single token or phrase, either contains
\* CJK characters and has length 2..10, or is an ASCII word of at least 2
\* letters; and it is neither blacklisted nor a stopword.
C12_EmittedTokensAdmissible ==
    tok_pc = "done" =>
        \A i \in DOMAIN tok_final :
            /\ \/ HasHan(tok_final[i]) /\ Len(tok_final[i]) \in 2..10
               \/ IsAlphaWord(tok_final[i]) /\ Len(tok_final[i]) >= 2
            /\ tok_final[i] \notin BAD_WORDS
            /\ tok_final[i] \notin tok_stop_set

\* The tagged pair passes the filter of tokenize on its own.
Kept(pair) == FilterTagged(<<pair>>, tok_pseg, tok_stop_set) # <<>>
KeptWord(pair) == FilterTagged(<<pair>>, tok_pseg, tok_stop_set)[1][1]

\* C13: every entry tokenize returns is a kept single token or the phrase of
\* two kept tokens that stand next to each other in the tagged sequence as the
\* tagger returned it; two kept tokens with a rejected token between them are
\* never concatenated.
C13_PhrasesOfAdjacentOnly ==
    tok_pc = "done" =>
        \A i \in DOMAIN tok_final :
            \/ tok_final[i] \in Range(tok_tokens)
            \/ \E j \in 1..(Len(tok_tagged) - 1) :
                   /\ Kept(tok_tagged[j]) /\ Kept(tok_tagged[j + 1])
                   /\ tok_final[i] =
                          normalize_word(KeptWord(tok_tagged[j]) \o KeptWord(tok_tagged[j + 1]))

\* The strings of the phrases found, the best score of each and the place of
\* discovery of its best-scored occurrence; the first place of a token.
PhraseStrings(ph) == {ph[i][1] : i \in DOMAIN ph}
BestScore(ph, p) ==
    CHOOSE s \in {ph[i][2] : i \in {k \in DOMAIN ph : ph[k][1] = p}} :
        \A i \in DOMAIN ph : ph[i][1] = p => ph[i][2] <= s
FirstBest(ph, p) ==
    CHOOSE i \in DOMAIN ph :
        /\ ph[i] = <<p, BestScore(ph, p)>>
        /\ \A k \in 1..(i - 1) : ph[k] # ph[i]
FirstPlace(toks, w) ==
    CHOOSE i \in DOMAIN toks : toks[i] = w /\ \A k \in 1..(i - 1) : toks[k] # w

\* x stands before y in the order the output is to have: phrases before
\* single tokens, phrases by descending score and then by discovery, single
\* tokens by their place in the title.
StandsBefore(ph, toks, x, y) ==
    IF x \in PhraseStrings(ph) /\ y \in PhraseStrings(ph)
    THEN \/ BestScore(ph, x) > BestScore(ph, y)
         \/ BestScore(ph, x) = BestScore(ph, y) /\ FirstBest(ph, x) < FirstBest(ph, y)
    ELSE IF x \in PhraseStrings(ph) THEN TRUE
    ELSE IF y \in PhraseStrings(ph) THEN FALSE
    ELSE FirstPlace(toks, x) < FirstPlace(toks, y)

\* C14: the list tokenize returns holds the phrases first, by descending score
\* with ties in discovery order, then the single tokens in their order in the
\* title; no string twice; at most 40 entries, which are the first 40 of that
\* order. Stated on the step that assembles the list from the phrases as
\* discovered.
C14_PhrasesFirstByScoreThenTokens ==
    [][ (tok_pc = "built" /\ tok_pc' = "done") =>
          LET every == PhraseStrings(tok_phrases) \cup Range(tok_tokens)
              before(x, y) == StandsBefore(tok_phrases, tok_tokens, x, y)
          IN  /\ Len(tok_final') <= 40
              /\ Len(tok_final') = IF Cardinality(every) < 40 THEN Cardinality(every) ELSE 40
              /\ Range(tok_final') \subseteq every
              /\ \A i, j \in DOMAIN tok_final' :
                     i < j => tok_final'[i] # tok_final'[j] /\ before(tok_final'[i], tok_final'[j])
              /\ \A x \in every \ Range(tok_final') :
                     \A i \in DOMAIN tok_final' : before(tok_final'[i], x)
      ]_vars

\* The title of 21 words: the phrase of the last two words has the highest
\* score and comes first although found last, the other 19 phrases follow in
\* discovery order, then the first 20 words; the 21st word is cut off.
C14_Witness ==
    /\ tok_pc = "done"
    /\ tok_tagged = LongCut
    /\ tok_pseg
    /\ Len(tok_final) = 40
    /\ tok_final[1] = <<"A","T","A","U">>
    /\ tok_final[2] = <<"A","A","A","B">>
    /\ tok_final[20] = <<"A","S","A","T">>
    /\ tok_final[21] = <<"A","A">>
    /\ tok_final[40] = <<"A","T">>

\* The lines segment.main owes for a snapshot: one per title with a digit
\* rank whose tokenization neither raises nor comes out empty, in order.
RECURSIVE OwedLines(_)
OwedLines(lines) ==
    IF lines = <<>> THEN <<>>
    ELSE (IF SegmentOne(Head(lines)).do = "append"
          THEN <<SegmentOne(Head(lines)).line>> ELSE <<>>)
         \o OwedLines(Tail(lines))

\* C15: a title whose processing raises an exception, or yields no token, is
\* skipped alone: when the run is over, news_seg.txt holds the line of every
\* other title of the snapshot, and no line for the skipped one.
C15_RowLevelIsolation ==
    (seg_pc = "done" /\ OwedLines(seg_raw.lines) # <<>>) =>
        seg_OUT = OwedLines(seg_raw.lines)

(***************************************************************************)
(* Properties of the co-occurrence mapper                                  *)
(***************************************************************************)
\* The two tokens of a record "a,b\t1".
PairOf(rec) == split1(split1(rec, "\t")[1], ",")

\* C16: in every record the co-occurrence mapper writes, for every input
\* line, the first token is strictly smaller than the second; no pair (A, A)
\* is written.
C16_PairsStrictlyOrdered ==
    \A i \in DOMAIN co_stdout :
        StrLess(PairOf(co_stdout[i])[1], PairOf(co_stdout[i])[2])

\* The records written by the step.
CoWritten == [i \in 1..(Len(co_stdout') - Len(co_stdout)) |-> co_stdout'[Len(co_stdout) + i]]
DistinctTokens(toks) == \A i, j \in DOMAIN toks : i # j => toks[i] # toks[j]

\* C17: for a line whose tokens are distinct, n of them of length >= 2, the
\* mapper writes n(n-1)/2 records, one for each unordered pair of those
\* tokens, smaller token first, each with value 1 and none twice; what is
\* written depends on the set of tokens only, not on their order on the line.
C17_AllPairsOnceAnyOrder ==
    [][ (co_stdin # <<>> /\ HasChar(strip(Head(co_stdin)), ",")
          /\ DistinctTokens(LineTokens(Head(co_stdin)))) =>
          LET V == {t \in Range(LineTokens(Head(co_stdin))) : Len(t) >= 2}
              owed == {a \o <<",">> \o b \o <<"\t", "1">> :
                          <<a, b>> \in {p \in V \X V : StrLess(p[1], p[2])}}
          IN  /\ 2 * Len(CoWritten) = Cardinality(V) * (Cardinality(V) - 1)
              /\ Range(CoWritten) = owed
              /\ Cardinality(owed) = Len(CoWritten)
      ]_vars

\* Two lines with the same three tokens in different orders: three records
\* each, the same three.
C17_Witness ==
    /\ co_stdin = <<>>
    /\ co_input = << SegLine(<<"1">>, <<W_china, W_football, W_earthquake>>),
                     SegLine(<<"1">>, <<W_football, W_earthquake, W_china>>) >>
    /\ Len(co_stdout) = 6
    /\ SubSeq(co_stdout, 1, 3) = SubSeq(co_stdout, 4, 6)
    /\ co_stdout[1] = W_china \o <<",">> \o W_earthquake \o <<"\t", "1">>
    /\ co_stdout[2] = W_china \o <<",">> \o W_football \o <<"\t", "1">>
    /\ co_stdout[3] = W_earthquake \o <<",">> \o W_football \o <<"\t", "1">>

\* C20: a mapper skips a malformed line (no delimiter, a rank that is not an
\* integer, an empty payload) without a record and processes the other lines
\* normally: at end of input, what it has written is what it writes for the
\* input without the malformed lines. Stated for the co-occurrence mapper.
C20_MalformedLinesSkipped ==
    co_stdin = <<>> => co_stdout = CoocMapperRun(SelectSeq(co_input, WellFormed))

(***************************************************************************)
(* Properties of the time-bucket mapper and of its consumer                *)
(***************************************************************************)
\* The records written by the step.
TmWritten == [i \in 1..(Len(tm_stdout') - Len(tm_stdout)) |-> tm_stdout'[Len(tm_stdout) + i]]

\* The three fields of a history line "timestamp,rank,title"; the line is
\* well formed when it has them and the timestamp is an integer.
HistoryFields(raw) == split2(strip(raw), ",")
WellFormedHistory(raw) ==
    /\ strip(raw) # <<>> /\ Head(strip(raw)) # "#"
    /\ Len(HistoryFields(raw)) = 3
    /\ int(HistoryFields(raw)[1]).ok

\* The hour of day, 0..23, of a timestamp on a machine at UTC + offset:
\* the h for which the local second of the day lies in [3600 h, 3600 h + 3600).
LocalHour(ts, offset) ==
    CHOOSE h \in 0..23 : ((ts + offset - 3600 * h) % 86400) < 3600

\* C18: for a well-formed history line the time-bucket mapper writes one
\* record "HH,token\t1" for each occurrence of a whitespace-separated token of
\* the title of length >= 2, in order and unchanged, HH being the two-digit
\* local hour 00..23 of the timestamp; shorter tokens give no record.
C18_OneRecordPerTokenAtLocalHour ==
    [][ (tm_stdin # <<>> /\ WellFormedHistory(Head(tm_stdin))) =>
          LET f == HistoryFields(Head(tm_stdin))
              h == LocalHour(int(f[1]).val, tm_utcoffset)
              long == SelectSeq(split(f[3]), LAMBDA t : Len(t) >= 2)
          IN  /\ Len(TmWritten) = Len(long)
              /\ \A i \in DOMAIN long :
                     TmWritten[i] = <<AsciiDigits[(h \div 10) + 1], AsciiDigits[(h % 10) + 1], ",">>
                                    \o long[i] \o <<"\t", "1">>
      ]_vars

\* On a machine at UTC+8: the 09:00 line with 地震 twice and a one-letter
\* token, then the 14:00 line with two tokens.
C18_Witness ==
    /\ tm_stdin = <<>>
    /\ tm_utcoffset = 8 * 3600
    /\ Len(tm_input) = 2
    /\ tm_stdout = << <<"0", "9", ",">> \o W_earthquake \o <<"\t", "1">>,
                      <<"0", "9", ",">> \o W_earthquake \o <<"\t", "1">>,
                      <<"1", "4", ",">> \o W_china \o <<"\t", "1">>,
                      <<"1", "4", ",">> \o W_football \o <<"\t", "1">> >>

\* The records of a time-distribution file: the lines "hour,token\tcount" with
\* an integer count; the hour is the text before the first comma of the key,
\* the token the text after it.
IsTimeRecord(line) ==
    /\ HasChar(line, "\t")
    /\ int(split1(line, "\t")[2]).ok
    /\ HasChar(split1(line, "\t")[1], ",")
TimeRecord(line) ==
    [hour |-> split1(split1(line, "\t")[1], ",")[1],
     token |-> split1(split1(line, "\t")[1], ",")[2],
     count |-> int(split1(line, "\t")[2]).val]
RecordsOfHour(f, h) ==
    {TimeRecord(f[i]) : i \in {k \in DOMAIN f : IsTimeRecord(f[k]) /\ TimeRecord(f[k]).hour = h}}
RECURSIVE HeatOfHour(_, _)
HeatOfHour(f, h) ==
    IF f = <<>> THEN 0
    ELSE (IF IsTimeRecord(Head(f)) /\ TimeRecord(Head(f)).hour = h
          THEN TimeRecord(Head(f)).count ELSE 0)
         + HeatOfHour(Tail(f), h)

\* C19: the consumer's result always has exactly the 24 buckets 00..23; in the
\* bucket of each hour, hot_words is the number of distinct (hour, token) keys
\* of that hour in the file, total_heat the sum of their counts, and keywords
\* the at most 10 tokens of highest count, in descending order of count;
\* nothing of another hour enters the bucket.
C19_TwentyFourBucketsTopTen ==
    td_pc = "done" =>
        /\ DOMAIN td_returned = Hours
        /\ \A h \in Hours :
               LET recs == RecordsOfHour(td_file, h)
                   kw == td_returned[h].keywords
               IN  /\ td_returned[h].hot_words = Cardinality({r.token : r \in recs})
                   /\ td_returned[h].total_heat = HeatOfHour(td_file, h)
                   /\ Len(kw) = IF Cardinality(recs) < 10 THEN Cardinality(recs) ELSE 10
                   /\ \A i \in DOMAIN kw : \E r \in recs : kw[i] = <<r.token, r.count>>
                   /\ \A i, j \in DOMAIN kw : i < j => kw[i] # kw[j] /\ kw[i][2] >= kw[j][2]
                   /\ \A r \in recs :
                          (\A i \in DOMAIN kw : kw[i] # <<r.token, r.count>>) =>
                              \A i \in DOMAIN kw : kw[i][2] >= r.count

(***************************************************************************)
(* Properties of the stages' exits and of the consumers' results           *)
(***************************************************************************)
\* C21: segment.main ends with exit status 1, and without writing
\* news_seg.txt, exactly when news_raw.txt is absent at start or when a
\* non-empty news_raw.txt gave no output line; in every other case it writes
\* one line "rank,token1 token2 ..." per title that yielded a token and ends
\* successfully.
C21_FatalExactlyWhenAbsentOrBarren ==
    seg_pc = "done" =>
        IF ~seg_raw.exists \/ (seg_raw.lines # <<>> /\ OwedLines(seg_raw.lines) = <<>>)
        THEN seg_status = "exit 1" /\ seg_OUT = <<>>
        ELSE seg_status = "exit 0" /\ seg_OUT = OwedLines(seg_raw.lines)

\* The records of a top20.txt: its lines "key\tcount" with an integer count,
\* as (key, count), in the order of the file.
RECURSIVE TopRecords(_)
TopRecords(f) ==
    IF f = <<>> THEN <<>>
    ELSE (IF HasChar(Head(f), "\t") /\ int(split1(Head(f), "\t")[2]).ok
          THEN << <<split1(Head(f), "\t")[1], int(split1(Head(f), "\t")[2]).val>> >>
          ELSE <<>>)
         \o TopRecords(Tail(f))
CountDescending(recs) == \A i, j \in DOMAIN recs : i < j => recs[i][2] >= recs[j][2]

Occurrences(s, e) == Cardinality({i \in DOMAIN s : s[i] = e})

\* The ranking parse_top20 returned is the top 20 of the file's records.
IsTopTwenty(kept, recs) ==
    /\ Len(kept) = IF Len(recs) < 20 THEN Len(recs) ELSE 20
    /\ CountDescending(kept)
    /\ \A r \in Range(kept) : Occurrences(kept, r) <= Occurrences(recs, r)
    /\ \A r \in Range(recs) :
           Occurrences(kept, r) < Occurrences(recs, r) =>
               \A i \in DOMAIN kept : r[2] <= kept[i][2]

\* C22: the ranking handed to the user holds at most 20 (key, count) records
\* of top20.txt, sorted by count descending, and no record left out has a
\* count greater than a record kept; what reducer.py writes is already sorted
\* by count descending.
C22_TopTwentyByCount ==
    [][ /\ t20_pc = "reduce" => CountDescending(TopRecords(t20_file'))
        /\ (t20_pc = "loop" /\ t20_pc' = "returned") =>
               IsTopTwenty(t20_returned'[1], TopRecords(t20_file)) ]_vars

\* The reducer wrote twenty-two records and the ranking holds the twenty of
\* highest count, from 22 down to 3.
C22_Witness ==
    /\ t20_pc = "returned"
    /\ t20_file = ReducerOutput(LongAggregate)
    /\ Len(t20_file) = 22
    /\ Len(t20_returned[1]) = 20
    /\ t20_returned[1][1][2] = 22
    /\ t20_returned[1][20][2] = 3

(***************************************************************************)
(* Properties of the phrase score                                          *)
(***************************************************************************)
\* The surviving tokens, other than the phrase itself, that are substrings of
\* the phrase: how many entries of pos_list.
PartsWithin(phrase, pos_list) ==
    Cardinality({i \in DOMAIN pos_list :
                    pos_list[i][1] # phrase /\ IsSubstring(pos_list[i][1], phrase)})

\* The score the rule gives a phrase built from tokens tagged f1, f2.
RuleScore(phrase, f1, f2, pos_list) ==
    2 * Len(phrase)
    + (IF f1 \in ALLOW_POS_EXACT \/ f2 \in ALLOW_POS_EXACT THEN 10 ELSE 0)
    + (IF startswith(f1, <<"n">>) \/ startswith(f2, <<"n">>) THEN 5 ELSE 0)
    + (IF startswith(f1, <<"a">>) \/ startswith(f2, <<"a">>) THEN 3 ELSE 0)
    + (IF \E f \in {f1, f2} : f \in {<<"n","r">>, <<"n","s">>, <<"n","t">>, <<"n","z">>}
       THEN 15 ELSE 0)
    + 2 * PartsWithin(phrase, pos_list)

\* The candidate phrases with the score of the rule, in discovery order.
RECURSIVE RulePhrases(_, _, _)
RulePhrases(pos_list, i, stop_set) ==
    IF i > Len(pos_list) - 1 THEN <<>>
    ELSE (IF PhraseAt(pos_list, i, stop_set) = <<>> THEN <<>>
          ELSE << <<PhraseAt(pos_list, i, stop_set)[1][1],
                    RuleScore(PhraseAt(pos_list, i, stop_set)[1][1],
                              pos_list[i][2], pos_list[i + 1][2], pos_list)>> >>)
         \o RulePhrases(pos_list, i + 1, stop_set)

\* C23: the score of a candidate phrase built from tokens tagged f1, f2 is
\* 2*len(phrase), + 10 if either tag is in the generic allow-set, + 5 if
\* either starts with the noun prefix, + 3 if either starts with the
\* adjective prefix, + 15 if either is one of nr/ns/nt/nz, + 2 for each other
\* surviving token that is a substring of the phrase.
C23_PhraseScore ==
    tok_pc = "built" => tok_phrases = RulePhrases(tok_pos_list, 1, tok_stop_set)

(***************************************************************************)
(* Properties of the reducers on malformed records                         *)
(***************************************************************************)
\* The runs of equal keys of a sequence of records, each with the sum of its
\* counts, in order.
RECURSIVE KeyRuns(_, _)
KeyRuns(recs, acc) ==
    IF recs = <<>> THEN acc
    ELSE IF acc # <<>> /\ acc[Len(acc)][1] = Head(recs).key
    THEN KeyRuns(Tail(recs),
                 [acc EXCEPT ![Len(acc)] = <<@[1], @[2] + Head(recs).count>>])
    ELSE KeyRuns(Tail(recs), Append(acc, <<Head(recs).key, Head(recs).count>>))

\* C24: in every reducer a record without TAB or with a non-integer count is
\* skipped without touching the accumulator, also in the middle of a key
\* group: the group is not split into two output records, and at end of
\* input each group holds the sum of its well-formed values only.
C24_MalformedRecordLeavesGroup ==
    [][ /\ (red_pc = "reading" /\ red_stdin # <<>> /\ ~ParseFor(job, Head(red_stdin)).ok)
               => UNCHANGED <<has_current, current_key, current_count, aggregated, red_stdout>>
        /\ (red_pc = "reading" /\ red_pc' = "done")
               => Produced' = KeyRuns(Received(job, red_input), <<>>) ]_vars

\* A malformed line came between two records of one key, and the reducer
\* produced the single aggregate of both.
C24_Witness ==
    /\ red_pc = "done"
    /\ Len(red_input) = 3
    /\ ParseFor(job, red_input[1]).ok /\ ~ParseFor(job, red_input[2]).ok
    /\ ParseFor(job, red_input[3]).ok
    /\ ParseFor(job, red_input[1]).key = ParseFor(job, red_input[3]).key
    /\ Produced = << <<ParseFor(job, red_input[1]).key,
                       ParseFor(job, red_input[1]).count + ParseFor(job, red_input[3]).count>> >>

(***************************************************************************)
(* Properties of the result of the inclusion dedup                         *)
(***************************************************************************)
\* C25: in the list deduplicate_by_inclusion returns for an input with
\* positive counts, no word is a substring of another word of the list.
C25_NoWordInsideAnother ==
    (dd_pc = "returned" /\ \A i \in DOMAIN words_with_counts : words_with_counts[i][2] > 0) =>
        \A i, j \in DOMAIN result :
            i # j => ~IsSubstring(result[i][1], result[j][1])

\* C26: deduplicate_by_inclusion only selects: every (word, count) of its
\* result is an element of its input, with the count it had there and no more
\* often than there, and the result is not empty when the input is not.
C26_DedupOnlySelects ==
    dd_pc = "returned" =>
        /\ \A i \in DOMAIN result :
               /\ result[i] \in Range(words_with_counts)
               /\ Occurrences(result, result[i]) <= Occurrences(words_with_counts, result[i])
        /\ words_with_counts # <<>> => result # <<>>

\* 中国足球 has replaced 足球: the result is the longer word alone, with its
\* own count 8.
C26_Witness ==
    /\ dd_pc = "returned"
    /\ words_with_counts = <<<<W_football, 10>>, <<W_cnfootball, 8>>>>
    /\ result = <<<<W_cnfootball, 8>>>>

\* C27: each consumer parser returns a result of the same shape on every
\* path: for a missing file parse_top20 returns the pair it returns for an
\* empty file, ([], 0), and parse_time_distribution the 24 empty buckets, so
\* that the caller's unpacking of the result never fails.
C27_SameShapeWhenFileMissing ==
    /\ (t20_pc \in {"returned", "done"} /\ ~t20_exists) => t20_returned = << <<>>, 0 >>
    /\ (td_pc = "done" /\ ~td_exists) =>
           /\ DOMAIN td_returned = Hours
           /\ \A h \in Hours :
                  td_returned[h] = [hot_words |-> 0, total_heat |-> 0, keywords |-> <<>>]
    /\ t20_caller # "ValueError"

(***************************************************************************)
(* Properties of the refresh                                               *)
(***************************************************************************)
\* What the log says of step n: it was begun, one of its checks failed.
StepBegun(n) == \E i \in DOMAIN rf_logs : rf_logs[i] = LogEntry(n, "begin")
StepFailed(n) == \E i \in DOMAIN rf_logs : rf_logs[i] = LogEntry(n, "failed")
MandatorySteps == 1..10
\* An archival copy or the job of step 11 or 12 failed.
OptionalFailure ==
    \E i \in DOMAIN rf_logs : rf_logs[i].msg \in {"archive failed", "job failed"}

\* C28: the refresh is fail-fast over its mandatory steps 1..10: once a check
\* of step n has failed the refresh has ended with the error response that
\* carries n, the log file holds the log, and no later step was begun; an
\* error response is always that of a failed mandatory step after whose
\* predecessors all passed; a response with ok = true is returned only when
\* every mandatory step was run and none failed, whatever the outcome of the
\* archival copies and of the jobs of steps 11 and 12.
C28_FailFastOverMandatorySteps ==
    /\ \A n \in MandatorySteps :
          StepFailed(n) =>
             /\ rf_pc = "done"
             /\ rf_response = [ok |-> FALSE, step |-> n, status |-> 500, time_distribution |-> <<>>]
             /\ rf_LOG_FILE = rf_logs
             /\ \A m \in 1..12 : m > n => ~StepBegun(m)
    /\ rf_pc = "done" /\ ~rf_response.ok =>
          /\ rf_response.step \in MandatorySteps
          /\ StepFailed(rf_response.step)
          /\ \A m \in MandatorySteps : m < rf_response.step => StepBegun(m) /\ ~StepFailed(m)
    /\ rf_pc = "done" /\ rf_response.ok =>
          \A n \in MandatorySteps : StepBegun(n) /\ ~StepFailed(n)
    /\ rf_pc = "done" /\ (\A n \in MandatorySteps : StepBegun(n) /\ ~StepFailed(n)) =>
          rf_response.ok /\ rf_response.status = 200 /\ rf_LOG_FILE = rf_logs

\* A refresh whose two archival copies and two later jobs all failed returned
\* ok = true.
C28_Witness ==
    /\ rf_pc = "done" /\ rf_response.ok
    /\ \E i \in DOMAIN rf_logs : rf_logs[i] = LogEntry(4, "archive failed")
    /\ \E i \in DOMAIN rf_logs : rf_logs[i] = LogEntry(10, "archive failed")
    /\ \E i \in DOMAIN rf_logs : rf_logs[i] = LogEntry(11, "job failed")
    /\ \E i \in DOMAIN rf_logs : rf_logs[i] = LogEntry(12, "job failed")

\* A title is admissible when segment.main writes a line for it.
AdmissibleTitles == \E i \in DOMAIN rf_news_raw.lines : SegmentOne(rf_news_raw.lines[i]).do = "append"

\* C29: a refresh over a snapshot with at least one admissible title, whose
\* time-bucket job ran and whose result was retrieved, yields at least one
\* (hour, token) record in time_dist.txt and at least one hour bucket with a
\* total heat above 0 in the response.
C29_TimeBucketsFromSnapshot ==
    /\ rf_pc = "done" /\ rf_response.ok /\ AdmissibleTitles
    /\ \E i \in DOMAIN rf_logs : rf_logs[i] = LogEntry(12, "job ok")
    /\ rf_time_dist_txt.exists
    => /\ rf_time_dist_txt.lines # <<>>
       /\ \E hour \in DOMAIN rf_response.time_distribution :
             rf_response.time_distribution[hour].total_heat > 0

====
